---------------------------- MODULE Spec2Model ----------------------------
(***************************************************************************)
(* url-file-db: the mirror tree, the per-node promise chains, the          *)
(* file-to-directory conversion and the path functions, as a state machine.*)
(*                                                                         *)
(* A string of the program is a sequence of one-character strings, so that *)
(* split, slice, replace and the percent codecs are computed as the code   *)
(* computes them.  Every `await` of the code is a suspension: its          *)
(* continuation is a job of the microtask queue `mq` (first in, first out),*)
(* and a filesystem call completes only when that queue is empty, as in    *)
(* the JavaScript event loop.                                              *)
(***************************************************************************)
EXTENDS Integers, Sequences, FiniteSets, TLC

(***************************************************************************)
(* Characters and strings                                                  *)
(***************************************************************************)

\* The characters of the model with their UTF-16 code units: ASCII
\* characters and the letter E with acute in both cases, on all of which
\* String.prototype.normalize() is the identity.
CharTable ==
    { <<"\t", 9>>, <<"\n", 10>>, <<" ", 32>>, <<"!", 33>>, <<"\"", 34>>, <<"%", 37>>,
      <<"*", 42>>, <<"-", 45>>, <<".", 46>>, <<"/", 47>>, <<"0", 48>>, <<"1", 49>>,
      <<"2", 50>>, <<"3", 51>>, <<"4", 52>>, <<"5", 53>>, <<"6", 54>>, <<"7", 55>>,
      <<"8", 56>>, <<"9", 57>>, <<":", 58>>, <<"<", 60>>, <<">", 62>>, <<"?", 63>>,
      <<"A", 65>>, <<"B", 66>>, <<"C", 67>>, <<"D", 68>>, <<"E", 69>>, <<"F", 70>>,
      <<"I", 73>>, <<"N", 78>>, <<"O", 79>>, <<"P", 80>>, <<"X", 88>>, <<"\\", 92>>,
      <<"_", 95>>, <<"a", 97>>, <<"b", 98>>, <<"c", 99>>, <<"d", 100>>, <<"e", 101>>,
      <<"f", 102>>, <<"g", 103>>, <<"h", 104>>, <<"i", 105>>, <<"j", 106>>, <<"k", 107>>,
      <<"l", 108>>, <<"m", 109>>, <<"n", 110>>, <<"o", 111>>, <<"p", 112>>, <<"q", 113>>,
      <<"r", 114>>, <<"s", 115>>, <<"t", 116>>, <<"u", 117>>, <<"v", 118>>, <<"w", 119>>,
      <<"x", 120>>, <<"y", 121>>, <<"z", 122>>, <<"|", 124>>, <<"É", 201>>, <<"é", 233>> }

Chars == { e[1] : e \in CharTable }

charCodeAt(ch) == (CHOOSE e \in CharTable : e[1] = ch)[2]

HasChar(code) == \E e \in CharTable : e[2] = code

fromCharCode(code) == (CHOOSE e \in CharTable : e[2] = code)[1]

HexDigits == <<"0", "1", "2", "3", "4", "5", "6", "7", "8", "9", "A", "B", "C", "D", "E", "F">>

\* The value of a hexadecimal digit of either case, -1 for any other character.
HexValue(ch) ==
    IF \E k \in 1..16 : HexDigits[k] = ch
    THEN (CHOOSE k \in 1..16 : HexDigits[k] = ch) - 1
    ELSE CASE ch = "a" -> 10 [] ch = "b" -> 11 [] ch = "c" -> 12
           [] ch = "d" -> 13 [] ch = "e" -> 14 [] ch = "f" -> 15
           [] OTHER -> -1

IsLetter(ch) == ch \in Chars /\
    ((charCodeAt(ch) >= 65 /\ charCodeAt(ch) <= 90) \/ (charCodeAt(ch) >= 97 /\ charCodeAt(ch) <= 122))

\* String.prototype.toLowerCase on one character: the ASCII capitals and
\* the capital E with acute have their small letter 32 code units up.
LowerCaseOf ==
    [ch \in Chars |->
        IF (charCodeAt(ch) >= 65 /\ charCodeAt(ch) <= 90) \/ charCodeAt(ch) = 201
        THEN fromCharCode(charCodeAt(ch) + 32)
        ELSE ch]

toLowerCaseChar(ch) == IF ch \in DOMAIN LowerCaseOf THEN LowerCaseOf[ch] ELSE ch

toLowerCase(s) == [k \in 1..Len(s) |-> toLowerCaseChar(s[k])]

slice(s, from) == SubSeq(s, from + 1, Len(s))

startsWith(s, prefix) == Len(s) >= Len(prefix) /\ SubSeq(s, 1, Len(prefix)) = prefix

\* String.prototype.split(sep) for a one-character separator.
RECURSIVE split(_, _)
split(s, sep) ==
    IF \E k \in 1..Len(s) : s[k] = sep
    THEN LET k == CHOOSE k \in 1..Len(s) : s[k] = sep /\ \A j \in 1..(k - 1) : s[j] # sep
         IN  <<SubSeq(s, 1, k - 1)>> \o split(SubSeq(s, k + 1, Len(s)), sep)
    ELSE <<s>>

\* encode_char: '%' and the two upper-case hexadecimal digits of the code unit.
encode_char(ch) ==
    LET code == charCodeAt(ch)
    IN  <<"%", HexDigits[(code \div 16) + 1], HexDigits[(code % 16) + 1]>>

(***************************************************************************)
(* Path functions (canonical_path.js)                                      *)
(***************************************************************************)

\* What decodeURIComponent throws on a malformed escape.
URIError == <<"URIError">>

\* decodeURIComponent on the model's characters: %XX with two hexadecimal
\* digits naming an ASCII character decodes to it, any other '%' throws (a
\* single escape of 80 and above is not UTF-8).
RECURSIVE decodeURIComponent(_)
decodeURIComponent(s) ==
    IF s = <<>> THEN <<>>
    ELSE IF Head(s) # "%"
    THEN LET rest == decodeURIComponent(Tail(s))
         IN  IF rest = URIError THEN URIError ELSE <<Head(s)>> \o rest
    ELSE IF Len(s) < 3 \/ HexValue(s[2]) < 0 \/ HexValue(s[3]) < 0
    THEN URIError
    ELSE LET code == 16 * HexValue(s[2]) + HexValue(s[3])
             rest == decodeURIComponent(SubSeq(s, 4, Len(s)))
         IN  IF ~HasChar(code) \/ code >= 128 \/ rest = URIError THEN URIError
             ELSE <<fromCharCode(code)>> \o rest

decode_component(component) == decodeURIComponent(component)

\* The loop of decode_path resolving "." , "" and "..".
RECURSIVE normalize_components(_, _)
normalize_components(components, normalized) ==
    IF components = <<>> THEN normalized
    ELSE LET component == Head(components)
         IN  IF component = <<".">> \/ component = <<>>
             THEN normalize_components(Tail(components), normalized)
             ELSE IF component = <<".", ".">>
             THEN normalize_components(Tail(components),
                      IF normalized = <<>> THEN <<>>
                      ELSE SubSeq(normalized, 1, Len(normalized) - 1))
             ELSE normalize_components(Tail(components), Append(normalized, component))

IndexComponent == <<"i", "n", "d", "e", "x">>

\* A decode_path that keeps a component named index.
keep_index(components) == components

\* components.slice(0, components.indexOf('index')), the whole when absent.
strip_index(components) ==
    IF \E k \in 1..Len(components) : components[k] = IndexComponent
    THEN LET k == CHOOSE k \in 1..Len(components) :
                     components[k] = IndexComponent /\
                     \A j \in 1..(k - 1) : components[j] # IndexComponent
         IN  SubSeq(components, 1, k - 1)
    ELSE components

decode_path(path) ==
    LET p == IF startsWith(path, <<"/">>) THEN slice(path, 1) ELSE path
    IN  IF p = <<>> THEN <<>>
        ELSE LET frags == split(p, "/")
                 components == [k \in 1..Len(frags) |-> decode_component(frags[k])]
             IN  IF \E k \in 1..Len(components) : components[k] = URIError
                 THEN URIError
                 ELSE normalize_components(strip_index(components), <<>>)

RECURSIVE replace_chars(_, _)
\* component.replace(/[set]/g, encode_char)
replace_chars(s, set) ==
    IF s = <<>> THEN <<>>
    ELSE (IF Head(s) \in set THEN encode_char(Head(s)) ELSE <<Head(s)>>)
         \o replace_chars(Tail(s), set)

\* A canonical string that leaves '%' and '/' as they are.
no_encoding(component) == component

encode_canonical_path_component(component) ==
    replace_chars(replace_chars(component, {"%"}), {"/"})

RECURSIVE join(_, _)
join(parts, sep) ==
    IF parts = <<>> THEN <<>>
    ELSE IF Len(parts) = 1 THEN parts[1]
    ELSE parts[1] \o sep \o join(Tail(parts), sep)

\* The canonical string of decoded components: '/' + map(encode).join('/').
canonical_of(components) ==
    <<"/">> \o join([k \in 1..Len(components) |->
                        encode_canonical_path_component(components[k])], <<"/">>)

get_canonical_path(path) ==
    LET components == decode_path(path)
    IN  IF components = URIError THEN URIError ELSE canonical_of(components)

\* The class [<>:"|\\?*%\x00-\x1f\x7f/] of encode_file_path_component.
UnsafeChars ==
    { "<", ">", ":", "\"", "|", "\\", "?", "*", "%", "/" } \cup
    { ch \in Chars : charCodeAt(ch) <= 31 \/ charCodeAt(ch) = 127 }

ReservedWords3 == { <<"c", "o", "n">>, <<"p", "r", "n">>, <<"a", "u", "x">>, <<"n", "u", "l">> }

ReservedStems == { <<"c", "o", "m">>, <<"l", "p", "t">> }

\* The length of the word (con|prn|aux|nul|com[1-9]|lpt[1-9]) the component
\* starts with, in either case; 0 when it starts with none.
reserved_stem_length(component) ==
    IF Len(component) >= 3 /\ toLowerCase(SubSeq(component, 1, 3)) \in ReservedWords3
    THEN 3
    ELSE IF Len(component) >= 4
            /\ toLowerCase(SubSeq(component, 1, 3)) \in ReservedStems
            /\ component[4] \in {"1", "2", "3", "4", "5", "6", "7", "8", "9"}
    THEN 4
    ELSE 0

\* Whether (\..*)?$ matches what follows the reserved word: nothing, or a
\* '.' and no line terminator after it.
reserved_rest_matches(rest) ==
    rest = <<>> \/ (rest[1] = "." /\ \A k \in 2..Len(rest) : rest[k] # "\n")

\* The length of the reserved word /^(con|prn|aux|nul|com[1-9]|lpt[1-9])(\..*)?$/i
\* matches at the start of the component, 0 when the component does not match.
matched_length(component, n) ==
    IF n > 0 /\ reserved_rest_matches(SubSeq(component, n + 1, Len(component))) THEN n ELSE 0

reserved_word_length(component) == matched_length(component, reserved_stem_length(component))

\* encoded = encoded_reserved + encoded_extension, for a reserved word of
\* length n.
encode_reserved(component, encoded, n) ==
    IF n = 0 THEN encoded
    ELSE SubSeq(component, 1, n - 1) \o encode_char(component[n]) \o slice(encoded, n)

\* A trailing dot or space is dropped, as Windows does, instead of encoded.
strip_trailing(encoded) ==
    IF encoded # <<>> /\ encoded[Len(encoded)] \in {".", " "}
    THEN SubSeq(encoded, 1, Len(encoded) - 1)
    ELSE encoded

\* A trailing dot or space is encoded.
encode_trailing(encoded) ==
    IF encoded # <<>> /\ encoded[Len(encoded)] \in {".", " "}
    THEN SubSeq(encoded, 1, Len(encoded) - 1) \o encode_char(encoded[Len(encoded)])
    ELSE encoded

encode_file_path_component(component) ==
    encode_trailing(encode_reserved(component, replace_chars(component, UnsafeChars),
                                    reserved_word_length(component)))

\* What encode_to_avoid_icase_collision throws when no letter is left.
CollisionExhausted == <<"Should never happen - safety check">>

\* The index (from 1) of the letter the inner loop of
\* encode_to_avoid_icase_collision encodes, scanning from position i down and
\* skipping three positions at the third character of a %XX triple; 0 when
\* the scan finds none.
RECURSIVE last_letter(_, _)
last_letter(component, i) ==
    IF i < 1 THEN 0
    ELSE IF i >= 3 /\ component[i - 2] = "%" THEN last_letter(component, i - 3)
    ELSE IF ~IsLetter(component[i]) THEN last_letter(component, i - 1)
    ELSE i

\* A name left as it is whatever names exist.
keep_name(component, existing_icomponents) == component

RECURSIVE encode_to_avoid_icase_collision(_, _)
encode_to_avoid_icase_collision(component, existing_icomponents) ==
    IF toLowerCase(component) \notin existing_icomponents THEN component
    ELSE LET i == last_letter(component, Len(component))
         IN  IF i = 0 THEN CollisionExhausted
             ELSE encode_to_avoid_icase_collision(
                      SubSeq(component, 1, i - 1) \o encode_char(component[i])
                          \o SubSeq(component, i + 1, Len(component)),
                      existing_icomponents)


(***************************************************************************)
(* Bounds and inputs                                                       *)
(***************************************************************************)

\* How many read / write / delete calls the caller issues in one behaviour
\* of Spec, of SpecFail (where the environment also fails filesystem calls)
\* and of SpecSpellings (where the caller spells its paths in several ways).
MaxCalls == 3

MaxCallsFail == 2

MaxCallsSpellings == 2

\* How many calls the caller issues in one behaviour of SpecIcase (a root
\* that is not case sensitive).
MaxCallsIcase == 3

\* How many filesystem calls the environment fails in one behaviour of SpecFail.
MaxFail == 1

\* How many calls the caller issues, and how many times another process
\* writes under the root, in one behaviour of SpecWatch.
MaxCallsWatch == 1

MaxExternal == 1

\* The paths the caller passes in Spec and SpecFail: a, a/b and a/c.
Paths ==
    { <<"/", "a">>,
      <<"/", "a", "/", "b">>,
      <<"/", "a", "/", "c">> }

\* The paths the caller passes in SpecSpellings: the root and the same
\* paths, some of them spelled in more than one way.
RawPaths ==
    { <<"/">>,
      <<"/", "i", "n", "d", "e", "x">>,
      <<"/", "a">>,
      <<"a">>,
      <<"/", "a", "/", "i", "n", "d", "e", "x">>,
      <<"/", "a", "/", "b">>,
      <<"/", "a", "/", ".", "/", "b", "/", "i", "n", "d", "e", "x">>,
      <<"/", "a", "/", "c">> }

\* The paths the caller passes in SpecIcase: siblings that differ by case
\* only, two of them with a character that is percent-encoded on disk.
CasePaths ==
    { <<"/", "F", "i">>,
      <<"/", "f", "i">>,
      <<"/", "f", "I">>,
      <<"/", "a", ":", "b">>,
      <<"/", "A", ":", "b">> }

\* The paths the caller passes in SpecTraversal: '..' above the root,
\* '..' and '.' written as escapes, and components that hold an escaped
\* separator.
TraversalPaths ==
    { <<"/", ".", ".", "/", "a">>,
      <<"/", "a", "/", ".", ".", "/", ".", ".", "/", "a", "/", "c">>,
      <<"/", "%", "2", "E", "%", "2", "E", "/", "a", "/", "%", "2", "E", "/", "c">>,
      <<"/", ".", ".", "%", "2", "F", "a">>,
      <<"/", "a", "%", "2", "F", ".", ".", "/", "c">> }

\* The paths the caller passes in SpecIcaseLetters: siblings that differ
\* by case only, in an ASCII letter and in a letter that is not ASCII.
LetterPaths ==
    { <<"/", "F">>,
      <<"/", "f">>,
      <<"/", "É">>,
      <<"/", "é">> }

\* The paths the caller passes in SpecIndexCase: a, and children of a, one
\* of which is spelled as the index file but for its case.
IndexCasePaths ==
    { <<"/", "a">>,
      <<"/", "a", "/", "I", "n", "d", "e", "x">>,
      <<"/", "a", "/", "c">> }

\* The contents the caller writes, and the content of what is on disk at the start.
Contents == {"A", "B"}

InitialContent == "I"

\* The files another process writes in SpecWatch (a, a/index and the
\* root's index) and what it writes.
ExternalPaths ==
    { << <<"a">> >>,
      << <<"a">>, <<"i", "n", "d", "e", "x">> >>,
      << <<"i", "n", "d", "e", "x">> >> }

\* The files another process writes in SpecWatchNames: a, a name that
\* decodes to a, and a name that decodeURIComponent does not decode.
ExternalNamePaths ==
    { << <<"a">> >>,
      << <<"%", "6", "1">> >>,
      << <<"%">> >> }

ExternalContent == "X"

\* The paths and the content the caller passes in SpecWatch.
WatchPaths ==
    { <<"/", "a">>,
      <<"/", "a", "/", "c">> }

WatchContent == "A"

\* read's null, and the outcome of a call whose promise rejected.
Null == "null"

Rejected == "rejected"

(***************************************************************************)
(* State                                                                   *)
(***************************************************************************)

VARIABLES
    fs,                  \* the disk under base_dir: file path (sequence of names) -> "DIR" or content
    mtimes,              \* the modification time of every entry of the disk
    clock,               \* the latest modification time given out
    writers,             \* who wrote each file of the disk last (history)
    nodes,               \* the node objects ever created; nodes[1] is root
    prom,                \* the promises held in directory_promise: state and awaiting calls
    calls,               \* the read / write / delete calls issued so far
    convs,               \* the convert_promise closures started so far
    mq,                  \* the microtask queue
    anticipated_events,  \* canonical paths
    meta_cache,          \* canonical path -> the mtime_ns of its metadata, 0 when it has none
    meta_fibers,         \* within_fiber.chains of 'meta:' ids: canonical path -> owners, the running one first
    chokidar_fibers,     \* within_fiber.chains of 'chokidar:' ids: fullpath -> handlers, the running one first
    handlers,            \* the runs of chokidar_handler that went past their synchronous part
    callbacks,           \* the calls of cb so far (history)
    watched,             \* what chokidar has reported of the disk: path -> WatchedDir, or the mtime it reported
    external,            \* how many more times another process changes the disk
    timers,              \* the pending setTimeout callbacks of db.write, oldest first
    budget,              \* how many more calls the caller makes
    faults,              \* how many more filesystem calls the environment may fail
    model_store,         \* reference: what each canonical path holds when calls run one at a time
    is_case_sensitive,   \* whether the backing root was detected case sensitive
    input,               \* the argument of a path function called on its own
    output,              \* what the path function returned
    spelled,             \* on a root that is not case sensitive: the name each entry of the disk was created with
    meta_storage,        \* the metadata of one path with every field of it, when meta_storage is called on its own
    filter_cb            \* the filter_cb the database was created with

vars == <<fs, mtimes, clock, writers, nodes, prom, calls, convs, mq, anticipated_events,
          meta_cache, meta_fibers, chokidar_fibers, handlers, callbacks, watched, external,
          timers, budget, faults, model_store, is_case_sensitive, input, output,
          spelled, meta_storage, filter_cb>>

\* The variables no step of a call changes.
outside_calls ==
    <<is_case_sensitive, filter_cb, input, output, watched, external, meta_storage, spelled>>

\* The variables a filesystem call of the database leaves alone.
outside_io ==
    <<is_case_sensitive, filter_cb, input, output, watched, external, meta_storage>>

\* The mutable program state as one record, so that the synchronous code of a
\* handler is a composition of functions on it.
Cur ==
    [ fs |-> fs, mtimes |-> mtimes, clock |-> clock, writers |-> writers, nodes |-> nodes,
      prom |-> prom, calls |-> calls, convs |-> convs, mq |-> mq,
      anticipated_events |-> anticipated_events, meta_cache |-> meta_cache,
      meta_fibers |-> meta_fibers, chokidar_fibers |-> chokidar_fibers,
      handlers |-> handlers, callbacks |-> callbacks, timers |-> timers ]

Install(s) ==
    /\ fs' = s.fs
    /\ mtimes' = s.mtimes
    /\ clock' = s.clock
    /\ writers' = s.writers
    /\ nodes' = s.nodes
    /\ prom' = s.prom
    /\ calls' = s.calls
    /\ convs' = s.convs
    /\ mq' = s.mq
    /\ anticipated_events' = s.anticipated_events
    /\ meta_cache' = s.meta_cache
    /\ meta_fibers' = s.meta_fibers
    /\ chokidar_fibers' = s.chokidar_fibers
    /\ handlers' = s.handlers
    /\ callbacks' = s.callbacks
    /\ timers' = s.timers

Root == 1

\* Promise.resolve() of root.directory_promise.
RootPromise == 1

create_node(file_path_component) ==
    [ file_path_component |-> file_path_component,
      component_to_node |-> <<>>,
      icomponent_to_ifile_path_components |-> <<>>,
      queue |-> <<>>,          \* promise_chain: the calls chained on it and not settled
      chain_rejected |-> FALSE, \* promise_chain: whether its last settled link rejected
      directory_promise |-> 0 ] \* 0 is null, else an index of prom

(***************************************************************************)
(* The filesystem boundary                                                 *)
(***************************************************************************)

DIR == "DIR"

dirname(path) == SubSeq(path, 1, Len(path) - 1)

IsDirectory(f, path) == path = <<>> \/ (path \in DOMAIN f /\ f[path] = DIR)

IsFile(f, path) == path \in DOMAIN f /\ f[path] # DIR

\* fs.readFile succeeds on a regular file.
readFile_ok(f, path) == IsFile(f, path)

\* fs.writeFile creates or truncates a regular file in an existing directory.
writeFile_ok(f, path) == path # <<>> /\ IsDirectory(f, dirname(path)) /\ ~IsDirectory(f, path)

writeFile_do(f, path, content) ==
    [q \in DOMAIN f \cup {path} |-> IF q = path THEN content ELSE f[q]]

\* fs.unlink removes a regular file.
unlink_ok(f, path) == IsFile(f, path)

unlink_do(f, path) == [q \in DOMAIN f \ {path} |-> f[q]]

Prefixes(path) == { SubSeq(path, 1, k) : k \in 1..Len(path) }

\* fs.mkdir(path, {recursive: true}) fails only on a regular file in the way.
mkdir_ok(f, path) == \A q \in Prefixes(path) : ~IsFile(f, q)

mkdir_do(f, path) ==
    [q \in DOMAIN f \cup Prefixes(path) |-> IF q \in Prefixes(path) THEN DIR ELSE f[q]]

\* fs.stat succeeds on anything that exists.
stat_ok(f, path) == path = <<>> \/ path \in DOMAIN f

\* The filesystem's clock ticks and stamps the entries `paths`.
stamp(s, paths) ==
    [s EXCEPT !.clock = @ + 1,
              !.mtimes = [q \in DOMAIN @ \cup paths |-> IF q \in paths THEN s.clock + 1 ELSE @[q]]]

\* The effects of fs.writeFile, fs.unlink and fs.mkdir on the disk and on
\* the modification times; fs.mkdir stamps the directories it creates.  `by`
\* is who writes: a call of db.write, a conversion, or another process.
do_writeFile(s, path, content, by) ==
    stamp([s EXCEPT !.fs = writeFile_do(@, path, content),
                    !.writers = [q \in DOMAIN @ \cup {path} |-> IF q = path THEN by ELSE @[q]]],
          {path})

do_unlink(s, path) ==
    [s EXCEPT !.fs = unlink_do(@, path),
              !.mtimes = [q \in DOMAIN @ \ {path} |-> @[q]],
              !.writers = [q \in DOMAIN @ \ {path} |-> @[q]]]

do_mkdir(s, path) ==
    IF Prefixes(path) \subseteq DOMAIN s.fs THEN s
    ELSE stamp([s EXCEPT !.fs = mkdir_do(@, path)], Prefixes(path) \ DOMAIN s.fs)

\* stats.mtimeNs of fs.stat(path), 0 when fs.stat throws.
stat_mtime(s, path) == IF path \in DOMAIN s.fs THEN s.mtimes[path] ELSE 0

\* The name the filesystem finds an entry by: a root that is not case
\* sensitive finds it whatever the case of the names.
fs_name(path) ==
    IF is_case_sensitive THEN path ELSE [k \in 1..Len(path) |-> toLowerCase(path[k])]

\* The names of the entries once the filesystem call for `fullpath` has
\* made the disk f: an entry it created has the name it was called with,
\* the others keep theirs.
respell(names, f, fullpath) ==
    IF is_case_sensitive THEN names
    ELSE [q \in DOMAIN f |-> IF q \in DOMAIN names THEN names[q] ELSE fullpath[Len(q)]]

\* The path readdir shows an entry of the disk under.
RECURSIVE display(_, _)
display(names, q) ==
    IF q = <<>> THEN <<>> ELSE Append(display(names, dirname(q)), names[q])

\* The disk and its modification times as readdir and stat show them: by
\* the names the entries were created with.
on_disk ==
    IF is_case_sensitive THEN fs
    ELSE [path \in { display(spelled, q) : q \in DOMAIN fs } |-> fs[fs_name(path)]]

on_disk_mtimes ==
    IF is_case_sensitive THEN mtimes
    ELSE [path \in { display(spelled, q) : q \in DOMAIN mtimes } |-> mtimes[fs_name(path)]]


(***************************************************************************)
(* Promises, awaits and the microtask queue                                *)
(***************************************************************************)

SetCall(s, c, upd) == [s EXCEPT !.calls[c] = upd @@ @]

SetConv(s, v, upd) == [s EXCEPT !.convs[v] = upd @@ @]

SetHandler(s, h, upd) == [s EXCEPT !.handlers[h] = upd @@ @]

PushJob(s, job) == [s EXCEPT !.mq = Append(@, job)]

\* An await that goes on whether or not the promise has settled.
await_nothing(s, c, p, pc) ==
    PushJob(SetCall(s, c, [pc |-> pc, awaiting |-> p]), [job |-> "resume", id |-> c])

\* `await promise` in call c, which goes on at `pc` once the promise has
\* settled: a settled promise queues the continuation at once.
Await(s, c, p, pc) ==
    LET s1 == SetCall(s, c, [pc |-> pc, awaiting |-> p])
    IN  IF s.prom[p].state = "pending"
        THEN [s1 EXCEPT !.prom[p].waiters = Append(@, c)]
        ELSE PushJob(s1, [job |-> "resume", id |-> c])

\* A promise that stays pending whatever happens to the work behind it.
never_settles(s, p, state) == s

\* A promise settles: the continuations awaiting it are queued in the order
\* they began to wait.
Settle(s, p, state) ==
    LET ws == s.prom[p].waiters
    IN  [s EXCEPT !.prom[p] = [state |-> state, waiters |-> <<>>],
                  !.mq = @ \o [k \in 1..Len(ws) |-> [job |-> "resume", id |-> ws[k]]]]

NewPromise(s) == [s EXCEPT !.prom = Append(@, [state |-> "pending", waiters |-> <<>>])]

\* The call's own promise settles with `result`.
Finish(s, c, result) == SetCall(s, c, [pc |-> "done", result |-> result])

RECURSIVE SortedSeq(_)
SortedSeq(S) ==
    IF S = {} THEN <<>>
    ELSE LET m == CHOOSE x \in S : \A y \in S : x <= y
         IN  <<m>> \o SortedSeq(S \ {m})

\* A callback run at once instead of behind the node's chain.
then_at_once(s, c) ==
    LET n == s.calls[c].node
    IN  PushJob([SetCall(s, c, [pc |-> "queued"]) EXCEPT !.nodes[n].queue = Append(@, c)],
                [job |-> "start", id |-> c])

\* node.promise_chain = node.promise_chain.then(callback) for call c: the
\* callback is queued at once when the chain has settled.
chain_then(s, c) ==
    LET n == s.calls[c].node
        s1 == [SetCall(s, c, [pc |-> "queued"]) EXCEPT !.nodes[n].queue = Append(@, c)]
    IN  IF s.nodes[n].queue = <<>> THEN PushJob(s1, [job |-> "start", id |-> c]) ELSE s1

\* The link of call c in its node's chain settles: the conversions awaiting
\* that link go on, and the next callback of the chain is queued.
chain_settle(s, c, result, rejected) ==
    LET n == s.calls[c].node
        old == s.nodes[n].queue
        q == SelectSeq(old, LAMBDA x : x # c)
        waiting == SortedSeq({ v \in 1..Len(s.convs) :
                                  s.convs[v].pc = "await_chain" /\ s.convs[v].wait = c })
        s1 == [Finish(s, c, result) EXCEPT !.nodes[n].queue = q,
                                           !.nodes[n].chain_rejected = rejected]
        s2 == [s1 EXCEPT !.convs = [v \in 1..Len(s.convs) |->
                                       IF s.convs[v].pc = "await_chain" /\ s.convs[v].wait = c
                                       THEN [pc |-> "chain_settled", chain_rejected |-> rejected]
                                            @@ s.convs[v]
                                       ELSE s.convs[v]],
                         !.mq = @ \o [k \in 1..Len(waiting) |-> [job |-> "convert", id |-> waiting[k]]]]
    IN  IF old # <<>> /\ Head(old) = c /\ q # <<>>
        THEN PushJob(s2, [job |-> "start", id |-> Head(q)])
        ELSE s2

(***************************************************************************)
(* db.read, db.delete, db.write: the walk                                  *)
(***************************************************************************)

\* fullpath += '/' + node.file_path_component, and the loop's next round.
walk_advance(s, c) ==
    LET call == s.calls[c]
    IN  SetCall(s, c, [fullpath |-> Append(call.fullpath,
                                           s.nodes[call.node].file_path_component),
                       i |-> call.i + 1])

\* if (node.directory_promise) fullpath += '/index'
index_path(s, c) ==
    LET call == s.calls[c]
    IN  IF s.nodes[call.node].directory_promise # 0
        THEN SetCall(s, c, [fullpath |-> Append(call.fullpath, IndexComponent)])
        ELSE s

\* db.read from the loop's round call.i on, up to its next await.
RECURSIVE db_read_walk(_, _)
db_read_walk(s, c) ==
    LET call == s.calls[c]
    IN  IF call.i > Len(call.components)
        THEN chain_then(index_path(s, c), c)
        ELSE LET component == call.components[call.i]
                 children == s.nodes[call.node].component_to_node
             IN  IF component \notin DOMAIN children
                 THEN Finish(s, c, Null)
                 ELSE LET n == children[component]
                          s1 == SetCall(s, c, [node |-> n])
                      IN  IF s.nodes[n].directory_promise # 0
                          THEN Await(s1, c, s.nodes[n].directory_promise, "walk_await")
                          ELSE db_read_walk(walk_advance(s1, c), c)

\* db.delete from the loop's round call.i on, up to its next await.
RECURSIVE db_delete_walk(_, _)
db_delete_walk(s, c) ==
    LET call == s.calls[c]
    IN  IF call.i > Len(call.components)
        THEN chain_then(index_path(s, c), c)
        ELSE LET component == call.components[call.i]
                 children == s.nodes[call.node].component_to_node
             IN  IF component \notin DOMAIN children
                 THEN Finish(s, c, "false")
                 ELSE LET n == children[component]
                          s1 == SetCall(s, c, [parent_node |-> call.node, node |-> n])
                      IN  IF s.nodes[n].directory_promise # 0
                          THEN Await(s1, c, s.nodes[n].directory_promise, "walk_await")
                          ELSE db_delete_walk(walk_advance(s1, c), c)

\* A db.write that converts every node it walks through.
converts_again(node, i, len) == i < len

\* Whether db.write converts the node it found for round i of `len` rounds.
needs_conversion(node, i, len) == i < len /\ node.directory_promise = 0

\* A convert_promise that does not await node.promise_chain.
start_conversion_at_once(s, c, n) ==
    LET p == Len(s.prom) + 1
        v == Len(s.convs) + 1
        conv == [ node |-> n,
                  by |-> c,
                  components |-> SubSeq(s.calls[c].components, 1, s.calls[c].i),
                  dir_fullpath |-> Append(s.calls[c].fullpath, s.nodes[n].file_path_component),
                  pc |-> "chain_settled",
                  wait |-> 0,
                  chain_rejected |-> FALSE,
                  old_content |-> Null,
                  promise |-> p ]
    IN  PushJob([NewPromise(s) EXCEPT !.convs = Append(@, conv),
                                      !.nodes[n].directory_promise = p],
                [job |-> "convert", id |-> v])

\* The convert_promise closure up to its `await node.promise_chain`, and
\* node.directory_promise = convert_promise.  (`by` and `components`, the
\* call that started it and the path of the node, are history.)
start_conversion(s, c, n) ==
    LET q == s.nodes[n].queue
        p == Len(s.prom) + 1
        v == Len(s.convs) + 1
        conv == [ node |-> n,
                  by |-> c,
                  components |-> SubSeq(s.calls[c].components, 1, s.calls[c].i),
                  dir_fullpath |-> Append(s.calls[c].fullpath, s.nodes[n].file_path_component),
                  pc |-> IF q = <<>> THEN "chain_settled" ELSE "await_chain",
                  wait |-> IF q = <<>> THEN 0 ELSE q[Len(q)],
                  chain_rejected |-> s.nodes[n].chain_rejected,
                  old_content |-> Null,
                  promise |-> p ]
        s1 == [NewPromise(s) EXCEPT !.convs = Append(@, conv),
                                    !.nodes[n].directory_promise = p]
    IN  IF q = <<>> THEN PushJob(s1, [job |-> "convert", id |-> v]) ELSE s1

\* The case map of `node` after ifile_path_components.add(unique.toLowerCase())
\* for the component; `existing` is the set it had.
add_icomponent(imap, icomponent, existing, unique) ==
    [k \in DOMAIN imap \cup {icomponent} |->
        IF k = icomponent
        THEN IF unique = CollisionExhausted THEN existing
             ELSE existing \cup {toLowerCase(unique)}
        ELSE imap[k]]

\* The name of a new child when the filesystem folds case, and the node's
\* case map after it.
icase_file_path_component(imap, icomponent, existing, unique) ==
    [name |-> unique, imap |-> add_icomponent(imap, icomponent, existing, unique)]

\* The set the node's case map has for the lower-cased component.
ifile_path_components(imap, icomponent) ==
    IF icomponent \in DOMAIN imap THEN imap[icomponent] ELSE {}

\* The name db.write gives a new child of `node` for `component`, and the
\* node's case map after it.
new_file_path_component(node, component) ==
    IF is_case_sensitive
    THEN [name |-> encode_file_path_component(component),
          imap |-> node.icomponent_to_ifile_path_components]
    ELSE icase_file_path_component(
             node.icomponent_to_ifile_path_components,
             toLowerCase(component),
             ifile_path_components(node.icomponent_to_ifile_path_components,
                                   toLowerCase(component)),
             encode_to_avoid_icase_collision(
                 encode_file_path_component(component),
                 ifile_path_components(node.icomponent_to_ifile_path_components,
                                       toLowerCase(component))))

\* The end of db.write's loop: the index rule, and the callback chained on
\* the node.
write_end(s, c) == chain_then(index_path(s, c), c)

\* new_node = create_node(file_path_component), set as the child of the
\* call's node for the component of this round; node = new_node.
add_node(s, c, made) ==
    LET call == s.calls[c]
        component == call.components[call.i]
        children == s.nodes[call.node].component_to_node
        n == Len(s.nodes) + 1
    IN  [s EXCEPT
           !.nodes = Append(
               [@ EXCEPT ![call.node].component_to_node =
                             [k \in DOMAIN children \cup {component} |->
                                 IF k = component THEN n ELSE children[k]],
                         ![call.node].icomponent_to_ifile_path_components = made.imap],
               create_node(made.name)),
           !.calls[c] = [node |-> n, fullpath |-> Append(call.fullpath, made.name)] @@ @]

\* new_node.directory_promise = db._mkdir(fullpath, {recursive: true}), and
\* the await of it.
mkdir_start(s, c) ==
    LET n == s.calls[c].node
        p == Len(s.prom) + 1
    IN  SetCall([NewPromise(s) EXCEPT !.nodes[n].directory_promise = p,
                                      !.prom[p].waiters = <<c>>],
                c, [pc |-> "mkdir", awaiting |-> p])

\* db.write's round for a component the node has no child for; `made` is
\* the name of the new child.  A leaf ends the loop.
write_new_node(s, c, made) ==
    LET call == s.calls[c]
    IN  IF made.name = CollisionExhausted
        THEN Finish([s EXCEPT !.nodes[call.node].icomponent_to_ifile_path_components =
                                  made.imap], c, Rejected)
        ELSE IF call.i < Len(call.components)
        THEN mkdir_start(add_node(s, c, made), c)
        ELSE write_end(SetCall(add_node(s, c, made), c, [i |-> call.i + 1]), c)

\* node.directory_promise = convert_promise; await node.directory_promise
convert_await(s, c) ==
    Await(s, c, s.nodes[s.calls[c].node].directory_promise, "convert_await")

RECURSIVE db_write_walk(_, _)

\* db.write's round for a component the node has a child for; the call's
\* node is that child already.
write_existing_node(s, c) ==
    LET call == s.calls[c]
        n == call.node
    IN  IF needs_conversion(s.nodes[n], call.i, Len(call.components))
        THEN convert_await(start_conversion(s, c, n), c)
        ELSE IF s.nodes[n].directory_promise # 0
        THEN Await(s, c, s.nodes[n].directory_promise, "walk_await")
        ELSE db_write_walk(walk_advance(s, c), c)

\* db.write from the loop's round call.i on, up to its next await.
db_write_walk(s, c) ==
    LET call == s.calls[c]
        component == call.components[call.i]
        parent == s.nodes[call.node]
    IN  IF call.i > Len(call.components)
        THEN write_end(s, c)
        ELSE IF component \notin DOMAIN parent.component_to_node
        THEN write_new_node(s, c, new_file_path_component(parent, component))
        ELSE write_existing_node(SetCall(s, c, [node |-> parent.component_to_node[component]]), c)

walk(s, c) ==
    CASE s.calls[c].kind = "read" -> db_read_walk(s, c)
      [] s.calls[c].kind = "delete" -> db_delete_walk(s, c)
      [] s.calls[c].kind = "write" -> db_write_walk(s, c)


(***************************************************************************)
(* Continuations run from the microtask queue                              *)
(***************************************************************************)

\* Call c goes on after the await it was suspended at; awaiting a rejected
\* promise throws out of the async function.
resume(s, c) ==
    LET call == s.calls[c]
    IN  IF s.prom[call.awaiting].state = "rejected"
        THEN Finish(s, c, Rejected)
        ELSE CASE call.pc = "mkdir_await" -> walk(SetCall(s, c, [i |-> call.i + 1]), c)
               [] call.pc = "convert_await" ->
                      Await(s, c, s.nodes[call.node].directory_promise, "walk_await")
               [] call.pc = "walk_await" -> walk(walk_advance(s, c), c)

\* Whether the callback chained for a call runs: then() skips it when the
\* link before it rejected.
callback_runs(node) == ~node.chain_rejected

\* The reaction of promise_chain.then(callback) for call c.
start_callback(s, c) ==
    LET call == s.calls[c]
    IN  IF callback_runs(s.nodes[call.node])
        THEN SetCall(s, c, [pc |-> IF call.kind = "read" THEN "readFile" ELSE "is_read_only"])
        ELSE chain_settle(s, c, Rejected, TRUE)

\* convert_promise goes on after `await node.promise_chain`.
convert_resume(s, v) ==
    LET conv == s.convs[v]
    IN  IF conv.chain_rejected
        THEN Settle(SetConv(s, v, [pc |-> "failed"]), conv.promise, "rejected")
        ELSE SetConv(s, v, [pc |-> "readFile"])

run_job(s, job) ==
    CASE job.job = "resume" -> resume(s, job.id)
      [] job.job = "start" -> start_callback(s, job.id)
      [] job.job = "convert" -> convert_resume(s, job.id)

(***************************************************************************)
(* within_fiber and the metadata store                                     *)
(***************************************************************************)

\* within_fiber.chains[id]: the owners whose functions were chained under
\* the id and have not finished, the running one first.
fiber_queue(chains, id) == IF id \in DOMAIN chains THEN chains[id] ELSE <<>>

\* within_fiber(id, func) for the function of `owner`.
within_fiber(chains, id, owner) ==
    [k \in DOMAIN chains \cup {id} |->
        IF k = id THEN Append(fiber_queue(chains, id), owner) ELSE chains[k]]

\* The running function of the id finishes; the chain of an id with nothing
\* left is deleted.
fiber_finish(chains, id) ==
    IF Len(chains[id]) = 1 THEN [k \in DOMAIN chains \ {id} |-> chains[k]]
    ELSE [chains EXCEPT ![id] = Tail(@)]

\* meta_cache after save_meta_internal (mtime_ns > 0, from mark_as_seen) or
\* delete_meta_internal (mtime_ns = 0) for the path.
meta_change(cache, canonical_path, mtime_ns) ==
    IF mtime_ns > 0
    THEN [k \in DOMAIN cache \cup {canonical_path} |->
             IF k = canonical_path THEN mtime_ns ELSE cache[k]]
    ELSE [k \in DOMAIN cache \ {canonical_path} |-> cache[k]]

\* The pc of an owner that calls meta_storage.mark_as_seen or
\* meta_storage.delete: its function runs at once when the fiber of the
\* path is free, and waits in the fiber otherwise.
meta_pc(s, canonical_path) ==
    IF fiber_queue(s.meta_fibers, canonical_path) = <<>> THEN "meta" ELSE "meta_wait"

\* meta_storage.mark_as_seen(canonical_path, mtime_ns) or, with mtime_ns = 0,
\* meta_storage.delete(canonical_path) by `owner`, up to the write or unlink
\* of the metadata file.
meta_begin(s, owner, canonical_path, mtime_ns) ==
    [s EXCEPT !.meta_fibers = within_fiber(@, canonical_path, owner),
              !.meta_cache = IF fiber_queue(s.meta_fibers, canonical_path) = <<>>
                             THEN meta_change(@, canonical_path, mtime_ns)
                             ELSE @]

\* The mtime_ns (0 for a delete) the waiting owner brought; an owner is a
\* call of the caller or a run of chokidar_handler.
owner_stats(s, owner) ==
    IF owner[1] = "call" THEN s.calls[owner[2]].stats ELSE s.handlers[owner[2]].stats

\* The waiting owner's function starts.
owner_start(s, owner) ==
    IF owner[1] = "call" THEN SetCall(s, owner[2], [pc |-> "meta"])
    ELSE SetHandler(s, owner[2], [pc |-> "meta"])

\* The function that was first in the fiber of the path is through; the
\* next one starts and changes the cache.
meta_next(s, canonical_path, left) ==
    IF left = <<>> THEN s
    ELSE owner_start([s EXCEPT !.meta_cache = meta_change(@, canonical_path,
                                                          owner_stats(s, Head(left)))],
                     Head(left))

\* The write or unlink of the metadata file of the running function returns.
meta_end(s, canonical_path) ==
    meta_next([s EXCEPT !.meta_fibers = fiber_finish(@, canonical_path)],
              canonical_path, Tail(s.meta_fibers[canonical_path]))

(***************************************************************************)
(* Filesystem calls completing                                             *)
(***************************************************************************)

\* Whether db.delete's callback removes the node from its parent.
delete_removes_node(node, parent_node) == node.directory_promise = 0 /\ parent_node # 0

\* db.delete's callback between is_read_only and db._unlink.
delete_remove_node(s, c) ==
    LET call == s.calls[c]
        node == s.nodes[call.node]
        last_component == call.components[Len(call.components)]
        parent == s.nodes[call.parent_node]
        children == parent.component_to_node
        imap == parent.icomponent_to_ifile_path_components
        icomponent == toLowerCase(last_component)
        left == imap[icomponent] \ {toLowerCase(node.file_path_component)}
    IN  IF delete_removes_node(node, call.parent_node)
        THEN [s EXCEPT
                !.nodes[call.parent_node].component_to_node =
                    [k \in DOMAIN children \ {last_component} |-> children[k]],
                !.nodes[call.parent_node].icomponent_to_ifile_path_components =
                    IF is_case_sensitive \/ icomponent \notin DOMAIN imap THEN imap
                    ELSE IF left = {} THEN [k \in DOMAIN imap \ {icomponent} |-> imap[k]]
                    ELSE [imap EXCEPT ![icomponent] = left]]
        ELSE s

\* setTimeout(() => anticipated_events.delete(canonical_path), 1000)
set_timeout(s, canonical_path) == [s EXCEPT !.timers = Append(@, canonical_path)]

\* A db.write that goes on after a db._writeFile that threw.
writeFile_swallowed(s, c) == SetCall(s, c, [pc |-> "stat"])

\* db._writeFile throws inside the callback chained for call c: the link
\* rejects, and so does the call.
writeFile_throws(s, c) == chain_settle(s, c, Rejected, TRUE)

\* A db.read whose callback lets the failure of db._readFile out.
readFile_rethrown(s, c) == chain_settle(s, c, Rejected, TRUE)

\* db.read's catch: the callback returns null.
readFile_caught(s, c) == chain_settle(s, c, Null, FALSE)

\* The filesystem call call c waits for returns; `fail` is an I/O failure
\* of the environment.  (No file of the model is read-only: is_read_only
\* answers false.)
call_io(s, c, fail) ==
    LET call == s.calls[c]
        path == fs_name(call.fullpath)
        canonical_path == canonical_of(call.components)
    IN  CASE call.pc = "readFile" ->
                 IF ~fail /\ readFile_ok(s.fs, path)
                 THEN chain_settle(s, c, s.fs[path], FALSE)
                 ELSE readFile_caught(s, c)
          [] call.pc = "is_read_only" /\ call.kind = "write" ->
                 SetCall([s EXCEPT !.anticipated_events = @ \cup {canonical_path}],
                         c, [pc |-> "writeFile"])
          [] call.pc = "is_read_only" /\ call.kind = "delete" ->
                 SetCall(delete_remove_node(s, c), c, [pc |-> "unlink"])
          [] call.pc = "writeFile" ->
                 IF ~fail /\ writeFile_ok(s.fs, path)
                 THEN SetCall(do_writeFile(s, path, call.content, "call"),
                              c, [pc |-> "stat", wrote |-> TRUE])
                 ELSE writeFile_throws(s, c)
          [] call.pc = "stat" ->
                 SetCall(meta_begin(s, <<"call", c>>, canonical_path, stat_mtime(s, path)),
                         c, [pc |-> meta_pc(s, canonical_path), stats |-> stat_mtime(s, path)])
          [] call.pc = "unlink" ->
                 IF ~fail /\ unlink_ok(s.fs, path)
                 THEN SetCall(meta_begin(do_unlink(s, path), <<"call", c>>, canonical_path, 0),
                              c, [pc |-> meta_pc(s, canonical_path)])
                 ELSE chain_settle(s, c, "false", FALSE)
          [] call.pc = "meta" /\ call.kind = "write" ->
                 chain_settle(set_timeout(meta_end(s, canonical_path), canonical_path),
                              c, "ok", FALSE)
          [] call.pc = "meta" /\ call.kind = "delete" ->
                 chain_settle(meta_end(s, canonical_path), c, "true", FALSE)
          [] call.pc = "mkdir" ->
                 IF ~fail /\ mkdir_ok(s.fs, path)
                 THEN Settle(SetCall(do_mkdir(s, path), c,
                                     [pc |-> "mkdir_await"]),
                             call.awaiting, "resolved")
                 ELSE Settle(SetCall(s, c, [pc |-> "mkdir_await"]), call.awaiting, "rejected")

\* The pcs at which a call has a filesystem call in flight, and those of
\* them the environment may fail (db._readFile, db._writeFile, db._unlink,
\* db._mkdir).
CallIoPcs == {"readFile", "is_read_only", "writeFile", "stat", "unlink", "meta", "mkdir"}

FailablePcs == {"readFile", "writeFile", "unlink", "mkdir"}

\* The filesystem call conversion v waits for returns.
convert_io(s, v, fail) ==
    LET conv == s.convs[v]
        dir == fs_name(conv.dir_fullpath)
        index == Append(dir, IndexComponent)
        reject == Settle(SetConv(s, v, [pc |-> "failed"]), conv.promise, "rejected")
    IN  CASE conv.pc = "readFile" ->
                 IF ~fail /\ readFile_ok(s.fs, dir)
                 THEN SetConv(s, v, [pc |-> "unlink", old_content |-> s.fs[dir]])
                 ELSE reject
          [] conv.pc = "unlink" ->
                 IF ~fail /\ unlink_ok(s.fs, dir)
                 THEN SetConv(do_unlink(s, dir), v, [pc |-> "mkdir"])
                 ELSE reject
          [] conv.pc = "mkdir" ->
                 IF ~fail /\ mkdir_ok(s.fs, dir)
                 THEN SetConv(do_mkdir(s, dir), v, [pc |-> "writeFile"])
                 ELSE reject
          [] conv.pc = "writeFile" ->
                 IF ~fail /\ writeFile_ok(s.fs, index)
                 THEN Settle(SetConv(do_writeFile(s, index, conv.old_content, "conversion"),
                                     v, [pc |-> "done"]),
                             conv.promise, "resolved")
                 ELSE reject

ConvIoPcs == {"readFile", "unlink", "mkdir", "writeFile"}

(***************************************************************************)
(* The file watcher                                                        *)
(***************************************************************************)

\* fullpath.slice(base_dir.length) of the names under base_dir.
file_path_of(names) == <<"/">> \o join(names, <<"/">>)

\* node.component_to_node.get(component) once the node was created if it
\* was missing.
child_of(s, n, component) ==
    IF component \in DOMAIN s.nodes[n].component_to_node
    THEN s.nodes[n].component_to_node[component]
    ELSE Len(s.nodes) + 1

\* if (!node.component_to_node.has(component)) node.component_to_node.set(...)
handler_create_node(s, n, name, component) ==
    IF component \in DOMAIN s.nodes[n].component_to_node THEN s
    ELSE [s EXCEPT !.nodes =
             Append([@ EXCEPT ![n].component_to_node =
                                  [k \in DOMAIN @ \cup {component} |->
                                      IF k = component THEN Len(s.nodes) + 1 ELSE @[k]]],
                    create_node(name))]

\* The case map of the node gets the lower-cased name.
handler_track_icase(s, n, name, icomponent) ==
    IF is_case_sensitive THEN s
    ELSE [s EXCEPT !.nodes[n].icomponent_to_ifile_path_components =
             [k \in DOMAIN @ \cup {icomponent} |->
                 IF k = icomponent
                 THEN ifile_path_components(@, icomponent) \cup {toLowerCase(name)}
                 ELSE @[k]]]

\* node.directory_promise = Promise.resolve() for the last name of addDir.
handler_mark_directory(s, m, last, event) ==
    IF last /\ event = "addDir" THEN [s EXCEPT !.nodes[m].directory_promise = RootPromise]
    ELSE s

RECURSIVE handler_add(_, _, _, _, _)

\* The end of one round of the loop for add and addDir; m is the child.
handler_add_node(s, names, i, m, event) ==
    IF s.nodes[m].file_path_component # names[i]
    THEN [state |-> s, thrown |-> TRUE]   \* 'Corruption detected - should never happen'
    ELSE handler_add(handler_mark_directory(s, m, i = Len(names), event),
                     names, i + 1, m, event)

\* One round of the loop for add and addDir, from the decoded component on.
handler_add_component(s, names, i, n, event, component) ==
    IF component = URIError THEN [state |-> s, thrown |-> TRUE]
    ELSE handler_add_node(
             handler_track_icase(handler_create_node(s, n, names[i], component),
                                 n, names[i], toLowerCase(component)),
             names, i, child_of(s, n, component), event)

\* chokidar_handler's loop for add and addDir: it builds the node tree.
handler_add(s, names, i, n, event) ==
    IF i > Len(names) THEN [state |-> s, thrown |-> FALSE]
    ELSE handler_add_component(s, names, i, n, event, decode_component(names[i]))

\* The last round of the loop for unlink and unlinkDir: the node goes from
\* its parent's maps.
handler_remove_node(s, n, name, component) ==
    [s EXCEPT
       !.nodes[n].component_to_node = [k \in DOMAIN @ \ {component} |-> @[k]],
       !.nodes[n].icomponent_to_ifile_path_components =
           IF is_case_sensitive \/ toLowerCase(component) \notin DOMAIN @ THEN @
           ELSE IF @[toLowerCase(component)] \ {toLowerCase(name)} = {}
                THEN [k \in DOMAIN @ \ {toLowerCase(component)} |-> @[k]]
                ELSE [@ EXCEPT ![toLowerCase(component)] = @ \ {toLowerCase(name)}]]

RECURSIVE handler_unlink(_, _, _, _)

handler_unlink_component(s, names, i, n, component) ==
    IF component = URIError THEN [state |-> s, thrown |-> TRUE]
    ELSE IF i = Len(names)
         THEN [state |-> handler_remove_node(s, n, names[i], component), thrown |-> FALSE]
         ELSE IF component \notin DOMAIN s.nodes[n].component_to_node
              THEN [state |-> s, thrown |-> FALSE]
              ELSE handler_unlink(s, names, i + 1, s.nodes[n].component_to_node[component])

\* chokidar_handler's loop for unlink and unlinkDir.
handler_unlink(s, names, i, n) ==
    handler_unlink_component(s, names, i, n, decode_component(names[i]))

\* anticipated_events.has(canonical_path)
is_anticipated(s, canonical_path) == canonical_path \in s.anticipated_events

\* A run of chokidar_handler that goes past its synchronous part; the field
\* `anticipated` is history for the properties.
new_handler(s, names, event, canonical_path, pc, fiber) ==
    [ fullpath |-> names, event |-> event, canonical_path |-> canonical_path, pc |-> pc,
      fiber |-> fiber, stats |-> 0,
      anticipated |-> canonical_path \in s.anticipated_events ]

\* if (event === 'unlink') await meta_storage.delete(canonical_path)
handler_unlink_meta(s, names, canonical_path) ==
    IF canonical_path = URIError THEN s
    ELSE meta_begin([s EXCEPT !.handlers =
                        Append(@, new_handler(s, names, "unlink", canonical_path,
                                              meta_pc(s, canonical_path), FALSE))],
                    <<"handler", Len(s.handlers) + 1>>, canonical_path, 0)

\* if (event === 'add' || event === 'change'): the function chained under
\* 'chokidar:' + fullpath unless the path is anticipated; it starts with
\* fs.stat when no earlier function of the fiber is left.
handler_notify(s, names, event, canonical_path) ==
    IF canonical_path = URIError \/ is_anticipated(s, canonical_path) THEN s
    ELSE [s EXCEPT
            !.handlers = Append(@, new_handler(s, names, event, canonical_path,
                                               IF fiber_queue(s.chokidar_fibers, names) = <<>>
                                               THEN "stat" ELSE "fiber_wait",
                                               TRUE)),
            !.chokidar_fibers = within_fiber(@, names, Len(s.handlers) + 1)]

\* chokidar_handler after the loops.
handler_after(s, names, event) ==
    IF event = "unlink"
    THEN handler_unlink_meta(s, names, get_canonical_path(file_path_of(names)))
    ELSE IF event \in {"add", "change"}
         THEN handler_notify(s, names, event, get_canonical_path(file_path_of(names)))
         ELSE s

\* What is left of a run whose loop threw.
handler_result(r, names, event) ==
    IF r.thrown THEN r.state ELSE handler_after(r.state, names, event)

\* The filter_cb the database is created with: none, one that
\* rejects the events of a and of what is in a, and one that rejects the
\* events of directories.
NoFilter == "undefined"

Filters == {"not_a", "files_only"}

\* filter_cb(fullpath, event)
filter_call(cb, names, event) ==
    IF cb = "not_a" THEN names[1] # <<"a">>
    ELSE event \notin {"addDir", "unlinkDir"}

\* A handler that does not call filter_cb.
handler_unfiltered(s, names, event) ==
    IF names = <<>> THEN s
    ELSE IF event \in {"add", "addDir"}
         THEN handler_result(handler_add(s, names, 1, Root, event), names, event)
         ELSE IF event \in {"unlink", "unlinkDir"}
              THEN handler_result(handler_unlink(s, names, 1, Root), names, event)
              ELSE handler_after(s, names, event)

\* chokidar_handler(fullpath, event) up to its first await; `names` are the
\* names of fullpath under base_dir, none for base_dir itself.
chokidar_handler(s, names, event) ==
    IF names = <<>> THEN s
    ELSE IF filter_cb # NoFilter /\ ~filter_call(filter_cb, names, event) THEN s
    ELSE IF event \in {"add", "addDir"}
         THEN handler_result(handler_add(s, names, 1, Root, event), names, event)
         ELSE IF event \in {"unlink", "unlinkDir"}
              THEN handler_result(handler_unlink(s, names, 1, Root), names, event)
              ELSE handler_after(s, names, event)

\* meta_storage.get(canonical_path): NoMeta for undefined, 0 for metadata
\* without mtime_ns, else its mtime_ns.
NoMeta == -1

meta_get(cache, canonical_path) ==
    IF canonical_path \in DOMAIN cache THEN cache[canonical_path] ELSE NoMeta

always_trigger(meta, mtimeNs) == TRUE

\* should_trigger = !meta || !meta_mtime_ns || stats.mtimeNs > meta_mtime_ns
should_trigger(meta, mtimeNs) == meta = NoMeta \/ meta = 0 \/ mtimeNs > meta

\* A run that is through; what it did is history the properties do not read.
DoneHandler ==
    [ fullpath |-> <<>>, event |-> "-", canonical_path |-> <<>>, pc |-> "done",
      fiber |-> FALSE, stats |-> 0, anticipated |-> FALSE ]

\* The run's function is through: the next function of its fiber starts.
handler_done(s, h) ==
    LET names == s.handlers[h].fullpath
        left == Tail(fiber_queue(s.chokidar_fibers, names))
        s1 == [s EXCEPT !.handlers[h] = DoneHandler]
    IN  IF ~s.handlers[h].fiber THEN s1
        ELSE IF left = <<>>
             THEN [s1 EXCEPT !.chokidar_fibers = fiber_finish(@, names)]
             ELSE SetHandler([s1 EXCEPT !.chokidar_fibers = fiber_finish(@, names)],
                             Head(left), [pc |-> "stat"])

\* cb(canonical_path), and what was so when it was called (history).
callback(s, h, mtimeNs) ==
    [s EXCEPT !.callbacks =
        Append(@, [ canonical_path |-> s.handlers[h].canonical_path,
                    fullpath |-> s.handlers[h].fullpath,
                    event |-> s.handlers[h].event,
                    anticipated |-> s.handlers[h].anticipated,
                    mtime_ns |-> mtimeNs,
                    meta |-> meta_get(s.meta_cache, s.handlers[h].canonical_path),
                    writer |-> IF fs_name(s.handlers[h].fullpath) \in DOMAIN s.writers
                               THEN s.writers[fs_name(s.handlers[h].fullpath)]
                               ELSE "directory",
                    handler |-> h ])]

\* fs.stat of the run returned with mtimeNs.
handler_stat(s, h, canonical_path, mtimeNs) ==
    IF should_trigger(meta_get(s.meta_cache, canonical_path), mtimeNs)
    THEN SetHandler(meta_begin(callback(s, h, mtimeNs), <<"handler", h>>,
                               canonical_path, mtimeNs),
                    h, [pc |-> meta_pc(s, canonical_path), stats |-> mtimeNs])
    ELSE handler_done(s, h)

\* fs.stat of the run threw.
handler_stat_failed(s, h, canonical_path) ==
    SetHandler(meta_begin(s, <<"handler", h>>, canonical_path, 0),
               h, [pc |-> meta_pc(s, canonical_path)])

\* The filesystem call run h waits for returns.
handler_io(s, h) ==
    IF s.handlers[h].pc = "stat"
    THEN IF stat_ok(s.fs, fs_name(s.handlers[h].fullpath))
         THEN handler_stat(s, h, s.handlers[h].canonical_path,
                           stat_mtime(s, fs_name(s.handlers[h].fullpath)))
         ELSE handler_stat_failed(s, h, s.handlers[h].canonical_path)
    ELSE handler_done(meta_end(s, s.handlers[h].canonical_path), h)

HandlerIoPcs == {"stat", "meta"}

(***************************************************************************)
(* Initial states                                                          *)
(***************************************************************************)

CompA == <<"a">>

CompB == <<"b">>

CanonPaths ==
    { decode_path(raw) : raw \in RawPaths \cup CasePaths \cup TraversalPaths \cup LetterPaths
                                \cup IndexCasePaths }

file_node(name) == create_node(name)

directory_node(name, children, p) ==
    [create_node(name) EXCEPT !.component_to_node = children, !.directory_promise = p]

Resolved == [state |-> "resolved", waiters |-> <<>>]

\* The modification time of what is on disk at the start, which the
\* metadata of the start records.
InitialTime == 1

\* The database with nothing on disk, with /a a file, and with /a a
\* directory holding a value and a child b: the states earlier writes leave
\* once they and their timers are through.
Layouts ==
    { [ fs |-> <<>>,
        nodes |-> << directory_node(<<"/">>, <<>>, RootPromise) >>,
        prom |-> << Resolved >>,
        meta_cache |-> <<>>,
        store |-> [p \in CanonPaths |-> Null] ],
      [ fs |-> (<<CompA>> :> InitialContent),
        nodes |-> << directory_node(<<"/">>, (CompA :> 2), RootPromise), file_node(CompA) >>,
        prom |-> << Resolved >>,
        meta_cache |-> (canonical_of(<<CompA>>) :> InitialTime),
        store |-> [p \in CanonPaths |-> IF p = <<CompA>> THEN InitialContent ELSE Null] ],
      [ fs |-> (<<CompA>> :> DIR) @@ (<<CompA, IndexComponent>> :> InitialContent)
                 @@ (<<CompA, CompB>> :> InitialContent),
        nodes |-> << directory_node(<<"/">>, (CompA :> 2), RootPromise),
                     directory_node(CompA, (CompB :> 3), 2),
                     file_node(CompB) >>,
        prom |-> << Resolved, Resolved >>,
        meta_cache |-> (canonical_of(<<CompA>>) :> InitialTime)
                         @@ (canonical_of(<<CompA, CompB>>) :> InitialTime),
        store |-> [p \in CanonPaths |->
                      IF p \in { <<CompA>>, <<CompA, CompB>> } THEN InitialContent ELSE Null] ] }

InitProgram(layout, ncalls, nfaults) ==
    /\ fs = layout.fs
    /\ mtimes = [q \in DOMAIN layout.fs |-> InitialTime]
    /\ clock = InitialTime
    /\ writers = [q \in { q \in DOMAIN layout.fs : layout.fs[q] # DIR } |-> "start"]
    /\ nodes = layout.nodes
    /\ prom = layout.prom
    /\ calls = <<>>
    /\ convs = <<>>
    /\ mq = <<>>
    /\ anticipated_events = {}
    /\ meta_cache = layout.meta_cache
    /\ meta_fibers = <<>>
    /\ chokidar_fibers = <<>>
    /\ handlers = <<>>
    /\ callbacks = <<>>
    /\ timers = <<>>
    /\ budget = ncalls
    /\ faults = nfaults
    /\ model_store = layout.store
    /\ spelled = <<>>

\* No path function is called on its own.
NotCalled == [called |-> FALSE]

InitWith(layout, ncalls, nfaults) ==
    /\ InitProgram(layout, ncalls, nfaults)
    /\ is_case_sensitive = TRUE
    /\ filter_cb = NoFilter
    /\ input = <<>>
    /\ output = NotCalled
    /\ meta_storage = NotCalled
    /\ watched = <<>>
    /\ external = 0

Init == \E layout \in Layouts : InitWith(layout, MaxCalls, 0)

InitFail == \E layout \in Layouts : InitWith(layout, MaxCallsFail, MaxFail)

InitSpellings == \E layout \in Layouts : InitWith(layout, MaxCallsSpellings, 0)

EmptyLayout == CHOOSE layout \in Layouts : layout.fs = <<>>

\* The empty database after db.set_meta('/a', ...): metadata that has no
\* mtime_ns.
BareMetaLayout == [EmptyLayout EXCEPT !.meta_cache = (canonical_of(<<CompA>>) :> 0)]

WatchLayouts == Layouts \cup {BareMetaLayout}

WatchedDir == -1

\* What chokidar has reported of a disk it has nothing left to report of.
all_reported(f) ==
    [q \in DOMAIN f \cup {<<>>} |->
        IF q = <<>> \/ f[q] = DIR THEN WatchedDir ELSE InitialTime]

\* The layouts with a watcher that has reported all of the disk, and other
\* processes that write under the root.
InitWatch ==
    /\ \E layout \in WatchLayouts :
           /\ InitProgram(layout, MaxCallsWatch, 0)
           /\ watched = all_reported(layout.fs)
    /\ is_case_sensitive = TRUE
    /\ filter_cb = NoFilter
    /\ input = <<>>
    /\ output = NotCalled
    /\ meta_storage = NotCalled
    /\ external = MaxExternal

\* A root that is not case sensitive, with nothing on disk.
InitIcase ==
    /\ InitProgram(EmptyLayout, MaxCallsIcase, 0)
    /\ is_case_sensitive = FALSE
    /\ filter_cb = NoFilter
    /\ input = <<>>
    /\ output = NotCalled
    /\ meta_storage = NotCalled
    /\ watched = <<>>
    /\ external = 0

(***************************************************************************)
(* Actions                                                                 *)
(***************************************************************************)

\* The node the tree holds for the components, 0 when it holds none.
RECURSIVE lookup(_, _, _)
lookup(ns, n, components) ==
    IF components = <<>> THEN n
    ELSE IF Head(components) \notin DOMAIN ns[n].component_to_node THEN 0
    ELSE lookup(ns, ns[n].component_to_node[Head(components)], Tail(components))

Done(c) == calls[c].pc = "done"

AllDone == \A c \in 1..Len(calls) : Done(c)

\* Nothing is pending: every call has settled, no microtask is queued and no
\* conversion is under way.
Quiescent ==
    /\ AllDone
    /\ mq = <<>>
    /\ \A v \in 1..Len(convs) : convs[v].pc \in {"done", "failed"}

\* What db.read resolves to when it is called with nothing pending: the
\* walk, the index rule and the read of the file, without a suspension that
\* another operation could use.
RECURSIVE read_now(_, _, _, _)
read_now(components, i, n, fullpath) ==
    IF i > Len(components)
    THEN LET path == fs_name(IF nodes[n].directory_promise # 0
                             THEN Append(fullpath, IndexComponent) ELSE fullpath)
         IN  IF nodes[n].chain_rejected THEN Rejected
             ELSE IF readFile_ok(fs, path) THEN fs[path] ELSE Null
    ELSE IF components[i] \notin DOMAIN nodes[n].component_to_node THEN Null
    ELSE LET m == nodes[n].component_to_node[components[i]]
         IN  IF nodes[m].directory_promise # 0
                /\ prom[nodes[m].directory_promise].state = "rejected"
             THEN Rejected
             ELSE read_now(components, i + 1, m, Append(fullpath, nodes[m].file_path_component))

ReadNow(components) == read_now(components, 1, Root, <<>>)

\* A call at its start.  `expected`, `existed` (whether the path had a node
\* when the call was made), `quiet` (whether nothing was pending then),
\* `before` (what each path read as then, kept for a call made with nothing
\* pending), `wrote` (whether its db._writeFile succeeded) and `failed`
\* (whether the environment failed a filesystem call of it) are history the
\* properties read; the code does not.
new_call(kind, path, components, content, expected) ==
    [ kind |-> kind, path |-> path, components |-> components, content |-> content,
      pc |-> "walk", node |-> Root, parent_node |-> 0, i |-> 1, fullpath |-> <<>>,
      awaiting |-> 0, result |-> "-", expected |-> expected, wrote |-> FALSE,
      failed |-> FALSE, stats |-> 0,
      existed |-> lookup(nodes, Root, components) # 0,
      quiet |-> Quiescent,
      before |-> IF Quiescent THEN [p \in CanonPaths |-> ReadNow(p)] ELSE <<>> ]

\* A call that takes the fragments of a path it cannot decode as they are.
issue_raw(kind, raw, content, expected) ==
    LET p == IF startsWith(raw, <<"/">>) THEN slice(raw, 1) ELSE raw
        components == IF p = <<>> THEN <<>>
                      ELSE normalize_components(strip_index(split(p, "/")), <<>>)
    IN  walk([Cur EXCEPT !.calls = Append(@, new_call(kind, raw, components, content,
                                                      expected))],
             Len(calls) + 1)

\* The caller calls db.read / db.delete / db.write: the function runs to its
\* first await.  A path that cannot be decoded throws before anything else.
issue(kind, raw, content, expected) ==
    LET components == decode_path(raw)
        c == Len(calls) + 1
    IN  IF components = URIError
        THEN [Cur EXCEPT !.calls = Append(@, [new_call(kind, raw, <<>>, content, Rejected)
                                               EXCEPT !.pc = "done", !.result = Rejected])]
        ELSE walk([Cur EXCEPT !.calls = Append(@, new_call(kind, raw, components, content,
                                                           expected))],
                  c)

IssueRead(raw) ==
    /\ budget > 0
    /\ Install(issue("read", raw, "-", model_store[decode_path(raw)]))
    /\ budget' = budget - 1
    /\ UNCHANGED <<faults, model_store>>
    /\ UNCHANGED outside_calls

IssueDelete(raw) ==
    /\ budget > 0
    /\ Install(issue("delete", raw, "-",
                     IF model_store[decode_path(raw)] = Null THEN "false" ELSE "true"))
    /\ model_store' = [model_store EXCEPT ![decode_path(raw)] = Null]
    /\ budget' = budget - 1
    /\ UNCHANGED faults
    /\ UNCHANGED outside_calls

IssueWrite(raw, content) ==
    /\ budget > 0
    /\ Install(issue("write", raw, content, "ok"))
    /\ model_store' = [model_store EXCEPT ![decode_path(raw)] = content]
    /\ budget' = budget - 1
    /\ UNCHANGED faults
    /\ UNCHANGED outside_calls

\* The event loop runs the oldest microtask.
RunMicrotask ==
    /\ mq # <<>>
    /\ Install(run_job([Cur EXCEPT !.mq = Tail(@)], Head(mq)))
    /\ UNCHANGED <<budget, faults, model_store>>
    /\ UNCHANGED outside_calls

FailChoices(failable) == IF failable /\ faults > 0 THEN {FALSE, TRUE} ELSE {FALSE}

\* A filesystem call of a call completes (a macrotask: no microtask is left).
CompleteCallIO(c) ==
    /\ mq = <<>>
    /\ calls[c].pc \in CallIoPcs
    /\ \E fail \in FailChoices(calls[c].pc \in FailablePcs) :
           /\ Install(call_io(IF fail THEN SetCall(Cur, c, [failed |-> TRUE]) ELSE Cur, c, fail))
           /\ faults' = IF fail THEN faults - 1 ELSE faults
    /\ spelled' = respell(spelled, fs', calls[c].fullpath)
    /\ UNCHANGED <<budget, model_store>>
    /\ UNCHANGED outside_io

\* A filesystem call of a conversion completes.
CompleteConvertIO(v) ==
    /\ mq = <<>>
    /\ convs[v].pc \in ConvIoPcs
    /\ \E fail \in FailChoices(TRUE) :
           /\ Install(convert_io(Cur, v, fail))
           /\ faults' = IF fail THEN faults - 1 ELSE faults
    /\ spelled' = respell(spelled, fs', Append(convs[v].dir_fullpath, IndexComponent))
    /\ UNCHANGED <<budget, model_store>>
    /\ UNCHANGED outside_io

\* The oldest timer of db.write fires.
TimerFire ==
    /\ mq = <<>>
    /\ timers # <<>>
    /\ Install([Cur EXCEPT !.anticipated_events = @ \ {Head(timers)}, !.timers = Tail(@)])
    /\ UNCHANGED <<budget, faults, model_store>>
    /\ UNCHANGED outside_calls

\* A filesystem call of a run of chokidar_handler completes.
CompleteHandlerIO(h) ==
    /\ mq = <<>>
    /\ handlers[h].pc \in HandlerIoPcs
    /\ Install(handler_io(Cur, h))
    /\ UNCHANGED <<budget, faults, model_store>>
    /\ UNCHANGED outside_calls

\* The event chokidar has to deliver for the path, "none" when what it
\* has reported of the path is what the disk has.  It reports an entry
\* after its directory and the removal of a directory after the removal of
\* its entries; the add of a file does not report its mtime, so a change
\* follows it.
event_for(path) ==
    IF path = <<>> THEN (IF <<>> \in DOMAIN watched THEN "none" ELSE "addDir")
    ELSE IF path \in DOMAIN watched
         THEN IF path \notin DOMAIN on_disk \/ (watched[path] = WatchedDir) # (on_disk[path] = DIR)
              THEN IF \E q \in DOMAIN watched : q # <<>> /\ dirname(q) = path THEN "none"
                   ELSE IF watched[path] = WatchedDir THEN "unlinkDir" ELSE "unlink"
              ELSE IF watched[path] # WatchedDir /\ watched[path] # on_disk_mtimes[path]
                   THEN "change" ELSE "none"
         ELSE IF /\ path \in DOMAIN on_disk
                 /\ dirname(path) \in DOMAIN watched
                 /\ watched[dirname(path)] = WatchedDir
              THEN (IF on_disk[path] = DIR THEN "addDir" ELSE "add")
              ELSE "none"

\* What chokidar has reported once it has delivered the event.
reported(path, event) ==
    IF event \in {"unlink", "unlinkDir"} THEN [q \in DOMAIN watched \ {path} |-> watched[q]]
    ELSE [q \in DOMAIN watched \cup {path} |->
             IF q # path THEN watched[q]
             ELSE IF event = "addDir" THEN WatchedDir
             ELSE IF event = "add" THEN 0
             ELSE on_disk_mtimes[path]]

\* chokidar delivers an event: c.on(e, x => chokidar_handler(x, e)).
Notice(path) ==
    /\ mq = <<>>
    /\ event_for(path) # "none"
    /\ Install(chokidar_handler(Cur, path, event_for(path)))
    /\ watched' = reported(path, event_for(path))
    /\ UNCHANGED <<budget, faults, model_store, is_case_sensitive, filter_cb, input, output,
                   external, meta_storage, spelled>>

\* Another process writes a file under the root, with the directory it is in.
ExternalWrite(path) ==
    /\ mq = <<>>
    /\ external > 0
    /\ mkdir_ok(fs, fs_name(dirname(path)))
    /\ ~IsDirectory(fs, fs_name(path))
    /\ Install(do_writeFile(do_mkdir(Cur, fs_name(dirname(path))), fs_name(path),
                            ExternalContent, "external"))
    /\ spelled' = respell(spelled, fs', path)
    /\ external' = external - 1
    /\ UNCHANGED <<budget, faults, model_store, is_case_sensitive, filter_cb, input, output,
                   watched, meta_storage>>

Next ==
    \/ \E raw \in Paths : IssueRead(raw)
    \/ \E raw \in Paths : IssueDelete(raw)
    \/ \E raw \in Paths, content \in Contents : IssueWrite(raw, content)
    \/ RunMicrotask
    \/ \E c \in 1..Len(calls) : CompleteCallIO(c)
    \/ \E v \in 1..Len(convs) : CompleteConvertIO(v)
    \/ TimerFire

NextSpellings ==
    \/ \E raw \in RawPaths : IssueRead(raw)
    \/ \E raw \in RawPaths : IssueDelete(raw)
    \/ \E raw \in RawPaths, content \in Contents : IssueWrite(raw, content)
    \/ RunMicrotask
    \/ \E c \in 1..Len(calls) : CompleteCallIO(c)
    \/ \E v \in 1..Len(convs) : CompleteConvertIO(v)
    \/ TimerFire

\* Reads and writes of sibling paths that differ by case.
NextIcase ==
    \/ \E raw \in CasePaths : IssueRead(raw)
    \/ \E raw \in CasePaths, content \in Contents : IssueWrite(raw, content)
    \/ RunMicrotask
    \/ \E c \in 1..Len(calls) : CompleteCallIO(c)
    \/ TimerFire

\* The caller's writes and deletes, the watcher, and another process
\* writing under the root.
NextWatch ==
    \/ \E raw \in WatchPaths : IssueDelete(raw)
    \/ \E raw \in WatchPaths : IssueWrite(raw, WatchContent)
    \/ RunMicrotask
    \/ \E c \in 1..Len(calls) : CompleteCallIO(c)
    \/ \E v \in 1..Len(convs) : CompleteConvertIO(v)
    \/ \E h \in 1..Len(handlers) : CompleteHandlerIO(h)
    \/ \E path \in DOMAIN on_disk \cup DOMAIN watched \cup {<<>>} : Notice(path)
    \/ \E path \in ExternalPaths : ExternalWrite(path)
    \/ TimerFire

\* The caller's calls with no I/O failure.
Spec == Init /\ [][Next]_vars

\* The caller's calls with the watcher running.
SpecWatch == InitWatch /\ [][NextWatch]_vars

\* The caller's reads and writes on a root that is not case sensitive.
SpecIcase == InitIcase /\ [][NextIcase]_vars

\* The caller's calls with filesystem calls that fail.
SpecFail == InitFail /\ [][Next]_vars

\* The caller's calls on paths spelled in several ways.
SpecSpellings == InitSpellings /\ [][NextSpellings]_vars


(***************************************************************************)
(* The file watcher on a root that is not case sensitive                   *)
(***************************************************************************)

MaxCallsWatchIcase == 2

\* The caller's paths: two that differ by case only.
WatchCasePaths ==
    { <<"/", "f", "i">>,
      <<"/", "F", "i">> }

\* The files another process writes.
ExternalCasePaths ==
    { << <<"f", "i">> >>,
      << <<"F", "i">> >> }

\* An empty root that is not case sensitive, with a watcher that has
\* reported it and another process that writes under it.
InitWatchIcase ==
    /\ InitProgram(EmptyLayout, MaxCallsWatchIcase, 0)
    /\ watched = all_reported(EmptyLayout.fs)
    /\ is_case_sensitive = FALSE
    /\ filter_cb = NoFilter
    /\ input = <<>>
    /\ output = NotCalled
    /\ meta_storage = NotCalled
    /\ external = MaxExternal

NextWatchIcase ==
    \/ \E raw \in WatchCasePaths : IssueDelete(raw)
    \/ \E raw \in WatchCasePaths : IssueWrite(raw, WatchContent)
    \/ RunMicrotask
    \/ \E c \in 1..Len(calls) : CompleteCallIO(c)
    \/ \E h \in 1..Len(handlers) : CompleteHandlerIO(h)
    \/ \E path \in DOMAIN on_disk \cup DOMAIN watched \cup {<<>>} : Notice(path)
    \/ \E path \in ExternalCasePaths : ExternalWrite(path)
    \/ TimerFire

\* The caller's writes and deletes, the watcher and another process on a
\* root that is not case sensitive.
SpecWatchIcase == InitWatchIcase /\ [][NextWatchIcase]_vars

(***************************************************************************)
(* The file watcher with events in any order                               *)
(***************************************************************************)

\* chokidar delivers the add of a file before the addDir of the directory
\* the file is in.
NoticeOutOfOrder(path) ==
    /\ mq = <<>>
    /\ path \in DOMAIN on_disk /\ on_disk[path] # DIR
    /\ path \notin DOMAIN watched
    /\ dirname(path) # <<>> /\ dirname(path) \notin DOMAIN watched
    /\ Install(chokidar_handler(Cur, path, "add"))
    /\ watched' = reported(path, "add")
    /\ UNCHANGED <<budget, faults, model_store, is_case_sensitive, filter_cb, input, output,
                   external, meta_storage, spelled>>

\* The layouts without a file to convert, with a watcher that has reported
\* all of the disk.
InitWatchAnyOrder ==
    /\ \E layout \in { l \in Layouts : ~IsFile(l.fs, <<CompA>>) } :
           /\ InitProgram(layout, MaxCallsWatch, 0)
           /\ watched = all_reported(layout.fs)
    /\ is_case_sensitive = TRUE
    /\ filter_cb = NoFilter
    /\ input = <<>>
    /\ output = NotCalled
    /\ meta_storage = NotCalled
    /\ external = MaxExternal

NextWatchAnyOrder ==
    \/ \E raw \in WatchPaths : IssueDelete(raw)
    \/ \E raw \in WatchPaths : IssueWrite(raw, WatchContent)
    \/ RunMicrotask
    \/ \E c \in 1..Len(calls) : CompleteCallIO(c)
    \/ \E h \in 1..Len(handlers) : CompleteHandlerIO(h)
    \/ \E path \in DOMAIN on_disk \cup DOMAIN watched \cup {<<>>} : Notice(path)
    \/ \E path \in DOMAIN on_disk : NoticeOutOfOrder(path)
    \/ \E path \in ExternalPaths : ExternalWrite(path)
    \/ TimerFire

\* The caller's writes and deletes, another process, and a watcher whose
\* events for a directory and for its files come in any order.
SpecWatchAnyOrder == InitWatchAnyOrder /\ [][NextWatchAnyOrder]_vars

(***************************************************************************)
(* Concurrent writes with the file watcher                                 *)
(***************************************************************************)

MaxCallsWatchWrites == 2

\* An empty root with a watcher that has reported it.
InitWatchWrites ==
    /\ InitProgram(EmptyLayout, MaxCallsWatchWrites, 0)
    /\ watched = all_reported(EmptyLayout.fs)
    /\ is_case_sensitive = TRUE
    /\ filter_cb = NoFilter
    /\ input = <<>>
    /\ output = NotCalled
    /\ meta_storage = NotCalled
    /\ external = 0

NextWatchWrites ==
    \/ \E raw \in Paths : IssueWrite(raw, WatchContent)
    \/ RunMicrotask
    \/ \E c \in 1..Len(calls) : CompleteCallIO(c)
    \/ \E v \in 1..Len(convs) : CompleteConvertIO(v)
    \/ \E h \in 1..Len(handlers) : CompleteHandlerIO(h)
    \/ \E path \in DOMAIN on_disk \cup DOMAIN watched \cup {<<>>} : Notice(path)
    \/ TimerFire

\* The caller's writes on an empty root with the watcher running.
SpecWatchWrites == InitWatchWrites /\ [][NextWatchWrites]_vars

(***************************************************************************)
(* The file watcher with a filter_cb                                       *)
(***************************************************************************)

\* The database just created on the disk of a layout: its tree has the
\* root only, and the metadata is what the files of meta_dir hold.
JustCreated(layout) == [layout EXCEPT !.nodes = EmptyLayout.nodes, !.prom = EmptyLayout.prom]

\* A database created with a filter_cb on the disk of a layout, with a
\* watcher that has reported nothing yet, base_dir included.
InitWatchFilter ==
    /\ \E layout \in Layouts : InitProgram(JustCreated(layout), MaxCallsWatch, 0)
    /\ watched = <<>>
    /\ is_case_sensitive = TRUE
    /\ filter_cb \in Filters
    /\ input = <<>>
    /\ output = NotCalled
    /\ meta_storage = NotCalled
    /\ external = 0

NextWatchFilter ==
    \/ \E raw \in WatchPaths : IssueWrite(raw, WatchContent)
    \/ RunMicrotask
    \/ \E c \in 1..Len(calls) : CompleteCallIO(c)
    \/ \E v \in 1..Len(convs) : CompleteConvertIO(v)
    \/ \E h \in 1..Len(handlers) : CompleteHandlerIO(h)
    \/ \E path \in DOMAIN on_disk \cup DOMAIN watched \cup {<<>>} : Notice(path)
    \/ TimerFire

\* The caller's writes and a watcher that starts with its scan of
\* base_dir, on a database created with a filter_cb.
SpecWatchFilter == InitWatchFilter /\ [][NextWatchFilter]_vars

(***************************************************************************)
(* Calls with paths that name the parent directory                         *)
(***************************************************************************)

MaxCallsTraversal == 2

InitTraversal == \E layout \in Layouts : InitWith(layout, MaxCallsTraversal, 0)

NextTraversal ==
    \/ \E raw \in TraversalPaths : IssueRead(raw)
    \/ \E raw \in TraversalPaths : IssueDelete(raw)
    \/ \E raw \in TraversalPaths, content \in Contents : IssueWrite(raw, content)
    \/ RunMicrotask
    \/ \E c \in 1..Len(calls) : CompleteCallIO(c)
    \/ \E v \in 1..Len(convs) : CompleteConvertIO(v)
    \/ TimerFire

\* The caller's calls on paths with '..', '.' and escaped separators.
SpecTraversal == InitTraversal /\ [][NextTraversal]_vars

(***************************************************************************)
(* Siblings of any letters on a root that is not case sensitive            *)
(***************************************************************************)

MaxCallsIcaseLetters == 2

\* A root that is not case sensitive, with nothing on disk.
InitIcaseLetters ==
    /\ InitProgram(EmptyLayout, MaxCallsIcaseLetters, 0)
    /\ is_case_sensitive = FALSE
    /\ filter_cb = NoFilter
    /\ input = <<>>
    /\ output = NotCalled
    /\ meta_storage = NotCalled
    /\ watched = <<>>
    /\ external = 0

NextIcaseLetters ==
    \/ \E raw \in LetterPaths : IssueRead(raw)
    \/ \E raw \in LetterPaths : IssueDelete(raw)
    \/ \E raw \in LetterPaths, content \in Contents : IssueWrite(raw, content)
    \/ RunMicrotask
    \/ \E c \in 1..Len(calls) : CompleteCallIO(c)
    \/ TimerFire

\* Reads, writes and deletes of siblings that differ by case, on a root
\* that is not case sensitive.
SpecIcaseLetters == InitIcaseLetters /\ [][NextIcaseLetters]_vars

(***************************************************************************)
(* A child named as the index file but for its case                        *)
(***************************************************************************)

MaxCallsIndexCase == 3

\* A root that is not case sensitive, with nothing on disk.
InitIndexCase ==
    /\ InitProgram(EmptyLayout, MaxCallsIndexCase, 0)
    /\ is_case_sensitive = FALSE
    /\ filter_cb = NoFilter
    /\ input = <<>>
    /\ output = NotCalled
    /\ meta_storage = NotCalled
    /\ watched = <<>>
    /\ external = 0

NextIndexCase ==
    \/ \E raw \in IndexCasePaths : IssueRead(raw)
    \/ \E raw \in IndexCasePaths, content \in Contents : IssueWrite(raw, content)
    \/ RunMicrotask
    \/ \E c \in 1..Len(calls) : CompleteCallIO(c)
    \/ \E v \in 1..Len(convs) : CompleteConvertIO(v)
    \/ TimerFire

\* Reads and writes of a directory and of its children on a root that is
\* not case sensitive.
SpecIndexCase == InitIndexCase /\ [][NextIndexCase]_vars

(***************************************************************************)
(* The file watcher and entries with names the database did not make       *)
(***************************************************************************)

NextWatchNames ==
    \/ \E raw \in WatchPaths : IssueDelete(raw)
    \/ \E raw \in WatchPaths : IssueWrite(raw, WatchContent)
    \/ RunMicrotask
    \/ \E c \in 1..Len(calls) : CompleteCallIO(c)
    \/ \E v \in 1..Len(convs) : CompleteConvertIO(v)
    \/ \E h \in 1..Len(handlers) : CompleteHandlerIO(h)
    \/ \E path \in DOMAIN on_disk \cup DOMAIN watched \cup {<<>>} : Notice(path)
    \/ \E path \in ExternalNamePaths : ExternalWrite(path)
    \/ TimerFire

\* The caller's calls with the watcher running, and another process that
\* writes files under names of its own.
SpecWatchNames == InitWatch /\ [][NextWatchNames]_vars

(***************************************************************************)
(* Calls with a path that cannot be decoded                                *)
(***************************************************************************)

MaxCallsUndecodable == 2

\* Raw paths with a malformed escape: alone, under a, and after index.
UndecodablePaths ==
    { <<"/", "%">>,
      <<"/", "a", "/", "%", "z">>,
      <<"/", "a", "/", "i", "n", "d", "e", "x", "/", "%", "2">> }

\* The caller calls db.read, db.delete or db.write with a path of
\* UndecodablePaths.
IssueUndecodable(kind, raw) ==
    /\ budget > 0
    /\ Install(issue(kind, raw, InitialContent, Rejected))
    /\ budget' = budget - 1
    /\ UNCHANGED <<faults, model_store>>
    /\ UNCHANGED outside_calls

InitUndecodable == \E layout \in Layouts : InitWith(layout, MaxCallsUndecodable, 0)

NextUndecodable ==
    \/ \E raw \in Paths : IssueRead(raw)
    \/ \E raw \in Paths : IssueDelete(raw)
    \/ \E raw \in Paths, content \in Contents : IssueWrite(raw, content)
    \/ \E raw \in UndecodablePaths, kind \in {"read", "delete", "write"} :
           IssueUndecodable(kind, raw)
    \/ RunMicrotask
    \/ \E c \in 1..Len(calls) : CompleteCallIO(c)
    \/ \E v \in 1..Len(convs) : CompleteConvertIO(v)
    \/ TimerFire

\* The caller's calls, some of them with a path that cannot be decoded.
SpecUndecodable == InitUndecodable /\ [][NextUndecodable]_vars

(***************************************************************************)
(* The path functions called on their own                                  *)
(***************************************************************************)

\* How many pieces the raw paths and the components given to the path
\* functions are made of.
MaxPathPieces == 4

MaxComponentPieces == 3

\* The pieces of the raw paths: the separator, plain names, the dot
\* components, index, a lone '%' and the escapes of '%', '/' and '.'.
PathPieces ==
    { <<"/">>, <<"a">>, <<"b">>, <<".">>, <<".", ".">>, IndexComponent, <<"%">>,
      <<"%", "2", "5">>, <<"%", "2", "F">>, <<"%", "2", "E">> }

\* The pieces of the components: device names, a dot, a space, '%', the
\* separator, a line feed, hexadecimal digits and plain letters.
ComponentPieces ==
    { <<"c", "o", "n">>, <<"C", "O", "M", "1">>, <<".">>, <<" ">>, <<"%">>, <<"/">>,
      <<"\n">>, <<"2", "E">>, <<"a">>, <<"x">> }

\* The strings made of at most n pieces.
RECURSIVE Strings(_, _)
Strings(pieces, n) ==
    IF n = 0 THEN { <<>> }
    ELSE LET shorter == Strings(pieces, n - 1)
         IN  shorter \cup { s \o piece : s \in shorter, piece \in pieces }

\* The components decode_path can return: not empty, not a dot component,
\* not index.
NormalizedComponents(n) ==
    Strings(ComponentPieces, n) \ { <<>>, <<".">>, <<".", ".">>, IndexComponent }

InitPaths ==
    /\ InitProgram(EmptyLayout, 0, 0)
    /\ is_case_sensitive = TRUE
    /\ filter_cb = NoFilter
    /\ watched = <<>>
    /\ external = 0
    /\ input \in Strings(PathPieces, MaxPathPieces)
    /\ output = NotCalled
    /\ meta_storage = NotCalled

InitComponents ==
    /\ InitProgram(EmptyLayout, 0, 0)
    /\ is_case_sensitive = TRUE
    /\ filter_cb = NoFilter
    /\ watched = <<>>
    /\ external = 0
    /\ input \in [ c : NormalizedComponents(MaxComponentPieces),
                    d : NormalizedComponents(MaxComponentPieces - 1) ]
    /\ output = NotCalled
    /\ meta_storage = NotCalled

program == <<fs, mtimes, clock, writers, nodes, prom, calls, convs, mq, anticipated_events,
             meta_cache, meta_fibers, chokidar_fibers, handlers, callbacks, watched, external,
             timers,
             budget, faults, model_store, spelled>>

\* decode_path on the input, get_canonical_path on the input, and
\* decode_path on the canonical string.
Canonicalize ==
    /\ ~output.called
    /\ output' = [ called |-> TRUE,
                   parsed |-> decode_path(input),
                   rendered |-> get_canonical_path(input),
                   reparsed |-> IF get_canonical_path(input) = URIError THEN URIError
                                ELSE decode_path(get_canonical_path(input)) ]
    /\ UNCHANGED <<input, is_case_sensitive, filter_cb, meta_storage, program>>

\* encode_file_path_component on both components of the input and
\* decode_component on what it returned.
EncodeAndDecode ==
    /\ ~output.called
    /\ output' = [ called |-> TRUE,
                   c_encoded |-> encode_file_path_component(input.c),
                   d_encoded |-> encode_file_path_component(input.d),
                   c_decoded |-> decode_component(encode_file_path_component(input.c)),
                   d_decoded |-> decode_component(encode_file_path_component(input.d)) ]
    /\ UNCHANGED <<input, is_case_sensitive, filter_cb, meta_storage, program>>

\* get_canonical_path called on raw paths.
SpecPaths == InitPaths /\ [][Canonicalize]_vars

\* How many pieces a raw path and what follows its index fragment are made
\* of when get_canonical_path is called on both.
MaxPrefixPieces == 3

MaxSuffixPieces == 2

\* What follows '/index': nothing, or the separator and some pieces.
Suffixes == { <<>> } \cup { <<"/">> \o t : t \in Strings(PathPieces, MaxSuffixPieces) }

InitIndexSuffix ==
    /\ InitProgram(EmptyLayout, 0, 0)
    /\ is_case_sensitive = TRUE
    /\ filter_cb = NoFilter
    /\ watched = <<>>
    /\ external = 0
    /\ input \in [ p : Strings(PathPieces, MaxPrefixPieces), s : Suffixes ]
    /\ output = NotCalled
    /\ meta_storage = NotCalled

\* get_canonical_path on the raw path, and on the raw path followed by
\* '/index' and the suffix.
CanonicalizeWithIndex ==
    /\ ~output.called
    /\ output' = [ called |-> TRUE,
                   plain |-> get_canonical_path(input.p),
                   with_index |-> get_canonical_path(input.p \o <<"/">> \o IndexComponent
                                                         \o input.s) ]
    /\ UNCHANGED <<input, is_case_sensitive, filter_cb, meta_storage, program>>

\* get_canonical_path called on raw paths with and without a trailing
\* '/index' and what follows it.
SpecIndexSuffix == InitIndexSuffix /\ [][CanonicalizeWithIndex]_vars

\* encode_file_path_component and decode_component called on components.
SpecComponents == InitComponents /\ [][EncodeAndDecode]_vars

(***************************************************************************)
(* encode_to_avoid_icase_collision called on its own                       *)
(***************************************************************************)

\* How many pieces the names given to encode_to_avoid_icase_collision are
\* made of.
MaxNamePieces == 3

\* The pieces of the names: letters of both cases, a digit, a hyphen, and
\* the escapes of a letter and of a colon.
NamePieces ==
    { <<"a">>, <<"B">>, <<"1">>, <<"-">>, <<"%", "4", "1">>, <<"%", "3", "A">> }

\* The positions of the name that hold a letter outside a %XX escape.
Eligible(component) ==
    { i \in 1..Len(component) :
          /\ IsLetter(component[i])
          /\ ~(i >= 2 /\ component[i - 1] = "%")
          /\ ~(i >= 3 /\ component[i - 2] = "%") }

\* The name with the last k of its eligible letters escaped.
EscapeLast(component, k) ==
    LET last == { i \in Eligible(component) :
                      Cardinality({ j \in Eligible(component) : j > i }) < k }
    IN  join([i \in 1..Len(component) |->
                 IF i \in last THEN encode_char(component[i]) ELSE <<component[i]>>], <<>>)

\* The lower-cased names that can make the name collide: those of the name
\* with its last letters escaped.
Colliding(component) ==
    { toLowerCase(EscapeLast(component, k)) : k \in 0..Cardinality(Eligible(component)) }

InitResolve ==
    /\ InitProgram(EmptyLayout, 0, 0)
    /\ is_case_sensitive = FALSE
    /\ filter_cb = NoFilter
    /\ watched = <<>>
    /\ external = 0
    /\ input \in UNION { { [ component |-> c, existing_icomponents |-> e ] :
                             e \in SUBSET Colliding(c) } :
                         c \in Strings(NamePieces, MaxNamePieces) \ { <<>> } }
    /\ output = NotCalled
    /\ meta_storage = NotCalled

\* encode_to_avoid_icase_collision(component, existing_icomponents)
Resolve ==
    /\ ~output.called
    /\ output' = [ called |-> TRUE,
                   name |-> encode_to_avoid_icase_collision(input.component,
                                                            input.existing_icomponents) ]
    /\ UNCHANGED <<input, is_case_sensitive, filter_cb, meta_storage, program>>

\* encode_to_avoid_icase_collision called on names and sets of lower-cased
\* names.
SpecResolve == InitResolve /\ [][Resolve]_vars

(***************************************************************************)
(* meta_storage called on its own                                          *)
(***************************************************************************)

MaxMetaCalls == 3

\* The fields of the metadata of a path: two of the caller's, and the one
\* the store's own bookkeeping writes.
MetaFields == {"custom", "foo", "mtime_ns"}

\* The value of a field an object does not have.
Undefined == "undefined"

\* {}
EmptyMeta == [f \in MetaFields |-> Undefined]

\* The updates the caller passes to db.update_meta: one field each.
MetaUpdates == { [EmptyMeta EXCEPT ![f] = v] : f \in {"custom", "foo"}, v \in {"1", "2"} }

\* The modification times db.write passes to mark_as_seen.
SeenTimes == {"1", "2"}

\* { ...existing, ...updates }
spread(existing, updates) ==
    [f \in MetaFields |-> IF updates[f] # Undefined THEN updates[f] ELSE existing[f]]

\* save_meta_internal(canonical_path, meta_data): within_fiber chains the
\* function that stores meta_data; it runs in a later microtask.
save_meta_internal(ms, meta_data) ==
    [ms EXCEPT !.chain = Append(@, [meta_data |-> meta_data, pc |-> "then"])]

\* meta_storage.update(canonical_path, updates): existing is read from
\* meta_cache at the call.
meta_storage_update(ms, updates) ==
    save_meta_internal(ms, spread(ms.meta_cache, updates))

\* The metadata store of one path: nothing recorded, or a field the caller
\* has set before.  (`merged`, the updates so far applied in the order of
\* the calls, is history.)
InitMeta ==
    /\ InitProgram(EmptyLayout, 0, 0)
    /\ is_case_sensitive = TRUE
    /\ filter_cb = NoFilter
    /\ watched = <<>>
    /\ external = 0
    /\ input = <<>>
    /\ output = NotCalled
    /\ \E existing \in {EmptyMeta, [EmptyMeta EXCEPT !["custom"] = "1"]} :
           meta_storage = [ meta_cache |-> existing, file |-> existing, chain |-> <<>>,
                            merged |-> existing, budget |-> MaxMetaCalls ]

\* The caller's db.update_meta(path, updates), up to its await.
UpdateMeta(updates) ==
    /\ meta_storage.budget > 0
    /\ meta_storage' = [meta_storage_update(meta_storage, updates)
                           EXCEPT !.merged = spread(@, updates), !.budget = @ - 1]
    /\ UNCHANGED <<input, output, is_case_sensitive, filter_cb, program>>

\* meta_storage.mark_as_seen(canonical_path, mtime_ns) of db.write's
\* bookkeeping, up to its await.
MarkAsSeen(mtime_ns) ==
    /\ meta_storage.budget > 0
    /\ meta_storage' = [meta_storage_update(meta_storage,
                                            [EmptyMeta EXCEPT !["mtime_ns"] = mtime_ns])
                           EXCEPT !.merged = [@ EXCEPT !["mtime_ns"] = mtime_ns],
                                  !.budget = @ - 1]
    /\ UNCHANGED <<input, output, is_case_sensitive, filter_cb, program>>

\* The oldest function of the fiber starts: meta_cache.set(canonical_path,
\* meta_data), and fs.writeFile begins.
MetaFiberRun ==
    /\ meta_storage.chain # <<>>
    /\ Head(meta_storage.chain).pc = "then"
    /\ meta_storage' = [meta_storage EXCEPT !.meta_cache = Head(meta_storage.chain).meta_data,
                                            !.chain[1].pc = "writeFile"]
    /\ UNCHANGED <<input, output, is_case_sensitive, filter_cb, program>>

\* fs.writeFile of the running function completes, and the function with it.
MetaFiberDone ==
    /\ meta_storage.chain # <<>>
    /\ Head(meta_storage.chain).pc = "writeFile"
    /\ meta_storage' = [meta_storage EXCEPT !.file = Head(meta_storage.chain).meta_data,
                                            !.chain = Tail(@)]
    /\ UNCHANGED <<input, output, is_case_sensitive, filter_cb, program>>

NextMeta ==
    \/ \E updates \in MetaUpdates : UpdateMeta(updates)
    \/ \E mtime_ns \in SeenTimes : MarkAsSeen(mtime_ns)
    \/ MetaFiberRun
    \/ MetaFiberDone

\* db.update_meta and the bookkeeping of db.write on the metadata of one
\* path.
SpecMeta == InitMeta /\ [][NextMeta]_vars

(***************************************************************************)
(* Properties                                                              *)
(***************************************************************************)

\* Every call so far names the same canonical path.
SamePath == \A c, d \in 1..Len(calls) : calls[c].components = calls[d].components

NoDeletes == \A c \in 1..Len(calls) : calls[c].kind # "delete"

\* Every settled call resolved to what it resolves to when the calls run one
\* at a time in the order they were made.
ResultsInIssueOrder == \A c \in 1..Len(calls) : Done(c) => calls[c].result = calls[c].expected

\* Once nothing is pending, every path some call named holds what the calls
\* leave when run one at a time.
StoredInIssueOrder ==
    Quiescent =>
        \A c \in 1..Len(calls) : ReadNow(calls[c].components) = model_store[calls[c].components]

\* C1: read, write and delete calls made on one canonical path without
\* waiting, with no I/O failure, resolve as if run one at a time in the order
\* they were made, and leave the value that order leaves.
C1_ProgramOrder == SamePath => (ResultsInIssueOrder /\ StoredInIssueOrder)

\* C2: reads and writes (no delete, no failure) made on one path whose node
\* existed when the first of them was made: every read resolves to the
\* content of the latest write made before it, and once all have settled the
\* path holds the content of the last write.
C2_ReadsSeeLatestWrite ==
    (SamePath /\ NoDeletes /\ Len(calls) > 0 /\ calls[1].existed)
        => (ResultsInIssueOrder /\ StoredInIssueOrder)

\* C2 witness: a read made behind two writes on an existing node, before
\* either had settled, has resolved to the second write's content.
C2_Witness ==
    /\ Len(calls) = 3
    /\ SamePath
    /\ calls[1].existed
    /\ calls[1].kind = "write" /\ calls[2].kind = "write" /\ calls[3].kind = "read"
    /\ calls[1].content # calls[2].content
    /\ ~calls[2].quiet /\ ~calls[3].quiet
    /\ nodes[calls[3].node].queue = <<>>
    /\ Done(3) /\ calls[3].result = calls[2].content


\* The content reads, writes and unlinks in flight: who issued each (a call
\* or a conversion), what it is, and the on-disk path it acts on.
InFlight ==
    { [by |-> <<"call", c>>, op |-> calls[c].pc, path |-> calls[c].fullpath] :
        c \in { c \in 1..Len(calls) : calls[c].pc \in {"readFile", "writeFile", "unlink"} } }
    \cup
    { [by |-> <<"conversion", v>>, op |-> convs[v].pc,
       path |-> IF convs[v].pc = "writeFile"
                THEN Append(convs[v].dir_fullpath, IndexComponent)
                ELSE convs[v].dir_fullpath] :
        v \in { v \in 1..Len(convs) : convs[v].pc \in {"readFile", "writeFile", "unlink"} } }

\* C3: no content write to an on-disk path is in flight while another
\* content read, write or unlink of the database on that path is in flight.
C3_NoOverlappingWrite ==
    \A x, y \in InFlight :
        (x.by # y.by /\ x.path = y.path) => (x.op # "writeFile" /\ y.op # "writeFile")




\* Path q is a child of path p.
IsChild(p, q) == Len(q) = Len(p) + 1 /\ SubSeq(q, 1, Len(p)) = p

\* The case of C4: conversion v was started by a write to a child of the
\* node's path P, the path has a value (on disk or in a write to P made
\* before), and nothing else was called but reads.
C4_Case(v) ==
    LET w == convs[v].by
        P == convs[v].components
    IN  /\ calls[w].kind = "write"
        /\ IsChild(P, calls[w].components)
        /\ \A c \in 1..Len(calls) :
               \/ c = w
               \/ calls[c].kind = "read"
               \/ calls[c].kind = "write" /\ calls[c].components = P /\ c < w
        /\ model_store[P] # Null

ConversionsOf(n) == { v \in 1..Len(convs) : convs[v].node = n }

\* The case of C5: nothing was called but writes to children, each a
\* different one, of the path of the node conversion v converts.
C5_Case(v) ==
    /\ \A c \in 1..Len(calls) :
           calls[c].kind = "write" /\ IsChild(convs[v].components, calls[c].components)
    /\ \A c, d \in 1..Len(calls) : c # d => calls[c].components # calls[d].components

RECURSIVE Subtree(_)
Subtree(n) ==
    {n} \cup UNION { Subtree(nodes[n].component_to_node[k]) :
                        k \in DOMAIN nodes[n].component_to_node }

\* C6: while a conversion of node n has a filesystem call in flight, the
\* queue of n is empty (what was queued before has finished) and no call
\* addressed to n or to a node under n has a filesystem call in flight.
C6_ConversionExclusive ==
    \A v \in 1..Len(convs) :
        convs[v].pc \in ConvIoPcs =>
            /\ nodes[convs[v].node].queue = <<>>
            /\ \A c \in 1..Len(calls) :
                   calls[c].node \in Subtree(convs[v].node) => calls[c].pc \notin CallIoPcs

\* C6 witness: a conversion has a filesystem call in flight after it waited
\* for a call queued on the node, while a call addressed to the node waits.
C6_Witness ==
    \E v \in 1..Len(convs) :
        /\ convs[v].pc \in ConvIoPcs
        /\ convs[v].wait # 0 /\ Done(convs[v].wait)
        /\ \E c \in 1..Len(calls) :
               /\ c # convs[v].by
               /\ calls[c].node = convs[v].node
               /\ calls[c].pc = "walk_await"

\* A raw path without its leading slash and without its trailing index.
plain(path) ==
    LET p1 == IF startsWith(path, <<"/">>) THEN slice(path, 1) ELSE path
        tail == <<"/">> \o IndexComponent
    IN  IF p1 = IndexComponent THEN <<>>
        ELSE IF Len(p1) >= Len(tail) /\ slice(p1, Len(p1) - Len(tail)) = tail
        THEN SubSeq(p1, 1, Len(p1) - Len(tail))
        ELSE p1

\* Two raw paths that differ in a leading slash or a trailing index, or
\* that have one canonical form.
SameAddress(x, y) == plain(x) = plain(y) \/ get_canonical_path(x) = get_canonical_path(y)

\* Every call was made with nothing pending: the caller awaits each call.
AllQuiet == \A c \in 1..Len(calls) : calls[c].quiet

\* The latest write or delete made before call r on a path that addresses
\* what r's path addresses; 0 when there is none.
LatestBefore(r) ==
    LET prior == { c \in 1..(r - 1) : calls[c].kind # "read"
                                       /\ SameAddress(calls[c].path, calls[r].path) }
    IN  IF prior = {} THEN 0 ELSE CHOOSE c \in prior : \A d \in prior : d <= c

LastAndQuiet(d) == d = Len(calls) /\ calls[d].quiet

\* Every path but P reads as it did when call d was made.
OthersKept(d, P) == \A Q \in CanonPaths \ {P} : ReadNow(Q) = calls[d].before[Q]

\* C8: a delete made with nothing pending on a path without a node
\* resolves false, and a delete made with nothing pending on a leaf whose
\* file exists resolves true, after which the path reads as not-found and
\* every other path reads as before.
C8_DeleteOfLeaf ==
    \A d \in 1..Len(calls) :
        (calls[d].kind = "delete" /\ calls[d].quiet /\ Done(d)) =>
            /\ ~calls[d].existed => calls[d].result = "false"
            /\ ( /\ calls[d].existed
                 /\ d = Len(calls)
                 /\ nodes[calls[d].node].directory_promise = 0
                 /\ calls[d].before[calls[d].components] \notin {Null, Rejected} )
               => ( /\ calls[d].result = "true"
                    /\ ReadNow(calls[d].components) = Null
                    /\ OthersKept(d, calls[d].components) )

\* Node n is in the tree.
InTree(n) == n \in Subtree(Root)

\* What a delete of a Directory node's value leaves: C9's first part.
C9_ValueDeleted ==
    \A d \in 1..Len(calls) :
        ( /\ calls[d].kind = "delete" /\ LastAndQuiet(d) /\ Done(d)
          /\ calls[d].existed
          /\ nodes[calls[d].node].directory_promise # 0
          /\ calls[d].before[calls[d].components] \notin {Null, Rejected} )
        => ( /\ calls[d].result = "true"
             /\ lookup(nodes, Root, calls[d].components) = calls[d].node
             /\ ReadNow(calls[d].components) = Null
             /\ OthersKept(d, calls[d].components) )

\* No step takes a Directory node out of the tree or makes it a File:
\* C9's second part.
C9_DirectoryStays ==
    \A n \in 1..Len(nodes) :
        (InTree(n) /\ nodes[n].directory_promise # 0)
            => (InTree(n)' /\ nodes'[n].directory_promise # 0)

\* C9: a delete of the value of a Directory node, the root included, made
\* with nothing pending, resolves true, leaves the node in the tree as a
\* Directory, leaves every other path reading as before and the node's path
\* reading as not-found; and no step of any call takes a Directory node out
\* of the tree or turns it into a File.
C9_DirectoryValueDelete == [](C9_ValueDeleted) /\ [][C9_DirectoryStays]_vars

\* The case of C9's first part: the value of a Directory node that has a
\* child was deleted; the node is still a Directory in the tree and its
\* child reads as before.
C9_Witness ==
    \E d \in 1..Len(calls) :
        /\ calls[d].kind = "delete" /\ LastAndQuiet(d) /\ Done(d)
        /\ calls[d].result = "true"
        /\ InTree(calls[d].node)
        /\ nodes[calls[d].node].directory_promise # 0
        /\ nodes[calls[d].node].component_to_node # <<>>
        /\ \E Q \in CanonPaths \ {calls[d].components} :
               ReadNow(Q) # Null /\ ReadNow(Q) = calls[d].before[Q]

\* C10: a write resolves only when its own db._writeFile wrote its
\* content; a write whose directory creation, conversion or db._writeFile
\* failed rejects.
C10_WriteResolvesOnlyIfWritten ==
    \A c \in 1..Len(calls) :
        (calls[c].kind = "write" /\ Done(c)) =>
            /\ calls[c].result = "ok" => calls[c].wrote
            /\ ~calls[c].wrote => calls[c].result = Rejected

\* C10 witness: the environment failed a filesystem call, and a write that
\* awaited a directory creation or a conversion that failed, or whose own
\* db._writeFile failed, has rejected.
C10_Witness ==
    /\ faults < MaxFail
    /\ \E c \in 1..Len(calls) :
           /\ calls[c].kind = "write" /\ Done(c)
           /\ calls[c].result = Rejected /\ ~calls[c].wrote

\* The only filesystem calls the environment failed are db._readFile calls
\* of db.read.
OnlyReadsFailed ==
    /\ \A e \in 1..Len(calls) : calls[e].failed => calls[e].kind = "read"
    /\ \A v \in 1..Len(convs) : convs[v].pc # "failed"

\* Call d was chained on the node of call r after call r.
QueuedBehind(d, r) == d > r /\ calls[d].node = calls[r].node /\ calls[d].i > Len(calls[d].components)

\* C11: a read whose db._readFile fails resolves to not-found, and the calls
\* chained on the same node after it run and resolve as they do without
\* the failure.
C11_FailedReadDoesNotPoison ==
    \A r \in 1..Len(calls) :
        (calls[r].kind = "read" /\ calls[r].failed /\ Done(r)) =>
            /\ calls[r].result = Null
            /\ OnlyReadsFailed =>
                   \A d \in 1..Len(calls) :
                       (QueuedBehind(d, r) /\ Done(d) /\ ~calls[d].failed)
                           => calls[d].result = calls[d].expected

\* C11 witness: a read failed and resolved to not-found, and a write chained
\* on its node behind it, before the read had run, has written its content.
C11_Witness ==
    \E r, d \in 1..Len(calls) :
        /\ calls[r].kind = "read" /\ calls[r].failed /\ Done(r) /\ calls[r].result = Null
        /\ QueuedBehind(d, r) /\ ~calls[d].quiet
        /\ calls[d].kind = "write" /\ Done(d) /\ calls[d].result = "ok" /\ calls[d].wrote

\* Call c reached the end of its walk and chained its callback on its node.
Chained(c) == calls[c].i > Len(calls[c].components)

\* C12: a call chained on a node behind a write whose filesystem call failed
\* runs its callback once that write has finished: it does not reject
\* unless a filesystem call of its own failed.
C12_QueueSurvivesFailedWrite ==
    \A w, d \in 1..Len(calls) :
        ( /\ calls[w].kind = "write" /\ calls[w].failed /\ Chained(w) /\ Done(w)
          /\ QueuedBehind(d, w) /\ Done(d) /\ ~calls[d].failed )
        => calls[d].result # Rejected

\* C13: whatever failed before, a read or a delete of a path that can be
\* decoded resolves (to bytes or not-found, to true or false); it never
\* rejects.
C13_ReadAndDeleteNeverReject ==
    \A c \in 1..Len(calls) :
        (calls[c].kind \in {"read", "delete"} /\ Done(c) /\ decode_path(calls[c].path) # URIError)
            => calls[c].result # Rejected

\* C19: for every raw path that can be parsed, parsing the canonical string
\* of the path gives the components the path parsed to.
C19_CanonicalizationIdempotent ==
    (output.called /\ output.parsed # URIError) => output.reparsed = output.parsed

\* C19 witness: a parsed path with a component that begins with the
\* separator and a component that contains '%', parsed again from its
\* canonical string.
C19_Witness ==
    /\ output.called /\ output.parsed # URIError
    /\ \E k \in 1..Len(output.parsed) : output.parsed[k][1] = "/"
    /\ \E k \in 1..Len(output.parsed) : \E j \in 1..Len(output.parsed[k]) : output.parsed[k][j] = "%"
    /\ output.rendered # input
    /\ output.reparsed = output.parsed

\* C20: decoding the filesystem name of a normalized component gives the
\* component, and two different components have different filesystem names.
C20_EncodeDecodeRoundTrip ==
    output.called =>
        /\ output.c_decoded = input.c
        /\ output.d_decoded = input.d
        /\ input.c # input.d => output.c_encoded # output.d_encoded

\* C20 witness: a device name with an extension ending in a dot, and a
\* component holding a '%', encoded to names that differ from them and
\* decoded again.
C20_Witness ==
    /\ output.called
    /\ reserved_word_length(input.c) > 0
    /\ input.c[Len(input.c)] = "."
    /\ Len(input.c) > 4
    /\ \E j \in 1..Len(input.d) : input.d[j] = "%"
    /\ output.c_encoded # input.c /\ output.d_encoded # input.d
    /\ output.c_decoded = input.c /\ output.d_decoded = input.d

\* The children of one node have names that differ after lower-casing.
SiblingNamesDiffer ==
    \A n \in 1..Len(nodes) :
        \A k1, k2 \in DOMAIN nodes[n].component_to_node :
            k1 # k2 =>
                toLowerCase(nodes[nodes[n].component_to_node[k1]].file_path_component)
                    # toLowerCase(nodes[nodes[n].component_to_node[k2]].file_path_component)

C14_NoCallbackForOwnConversion ==
    \A k \in 1..Len(callbacks) : callbacks[k].writer # "conversion"

C16_OneCallbackPerModificationTime ==
    \A j, k \in 1..Len(callbacks) :
        (j < k /\ callbacks[j].fullpath = callbacks[k].fullpath)
            => callbacks[k].mtime_ns > callbacks[j].mtime_ns

\* The names without a last name `index`.
WithoutIndex(names) ==
    IF names # <<>> /\ names[Len(names)] = IndexComponent
    THEN SubSeq(names, 1, Len(names) - 1)
    ELSE names

EndsWithIndex(key) ==
    /\ Len(key) > Len(IndexComponent)
    /\ SubSeq(key, Len(key) - Len(IndexComponent), Len(key)) = <<"/">> \o IndexComponent

\* C17: the callback gets the canonical path of the file that changed:
\* <dir> for <dir>/index and "/" for the root's index; it is never empty and
\* never ends with an index segment.
C17_CallbackGetsCanonicalPath ==
    \A k \in 1..Len(callbacks) :
        /\ callbacks[k].canonical_path # <<>>
        /\ ~EndsWithIndex(callbacks[k].canonical_path)
        /\ callbacks[k].canonical_path = file_path_of(WithoutIndex(callbacks[k].fullpath))

\* The callback was called for a/index and for the root's index.
C17_Witness ==
    /\ \E k \in 1..Len(callbacks) :
           /\ callbacks[k].fullpath = <<CompA, IndexComponent>>
           /\ callbacks[k].canonical_path = <<"/", "a">>
    /\ \E k \in 1..Len(callbacks) :
           /\ callbacks[k].fullpath = <<IndexComponent>>
           /\ callbacks[k].canonical_path = <<"/">>

(***************************************************************************)
(* Names that are safe on every filesystem                                 *)
(***************************************************************************)

UpperHexDigits ==
    {"0", "1", "2", "3", "4", "5", "6", "7", "8", "9", "A", "B", "C", "D", "E", "F"}

\* con, prn, aux, nul, com1..com9 and lpt1..lpt9.
DeviceNames ==
    ReservedWords3 \cup
    { stem \o <<digit>> : stem \in ReservedStems,
                          digit \in {"1", "2", "3", "4", "5", "6", "7", "8", "9"} }

\* The name is a device name, or a device name, a dot and a suffix, in
\* either case.
IsDeviceName(name) ==
    \E word \in DeviceNames :
        /\ Len(name) >= Len(word)
        /\ toLowerCase(SubSeq(name, 1, Len(word))) = word
        /\ (Len(name) = Len(word) \/ name[Len(word) + 1] = ".")

\* The only unsafe character of the name is '%', and each one starts an
\* escape of two upper-case hexadecimal digits.
OnlyEscapes(name) ==
    \A k \in 1..Len(name) :
        name[k] \in UnsafeChars =>
            /\ name[k] = "%"
            /\ k + 2 <= Len(name)
            /\ name[k + 1] \in UpperHexDigits
            /\ name[k + 2] \in UpperHexDigits

FilesystemSafe(name) ==
    /\ OnlyEscapes(name)
    /\ name # <<>> => name[Len(name)] \notin {".", " "}
    /\ ~IsDeviceName(name)

\* C21: the filesystem name of every component is filesystem-safe: no
\* unsafe character but '%' starting an upper-case escape, no dot or space
\* at the end, and not a device name with or without a suffix.
C21_EncodedNameIsSafe ==
    output.called => FilesystemSafe(output.c_encoded)

(***************************************************************************)
(* C22: what an operation waits for                                        *)
(***************************************************************************)

\* Whether `short` is the path of `long` or of an ancestor of it.
IsPathPrefix(short, long) ==
    Len(short) <= Len(long) /\ SubSeq(long, 1, Len(short)) = short

\* Call c is suspended at an await of a promise that has not settled.
AwaitsPending(c) ==
    /\ calls[c].pc \in {"walk_await", "convert_await", "mkdir_await"}
    /\ calls[c].awaiting > 0
    /\ prom[calls[c].awaiting].state = "pending"

\* Promise p is the db._mkdir in flight of a call creating the directory
\* of `components` or of an ancestor of it.
CreatingAncestor(p, components) ==
    \E d \in 1..Len(calls) :
        /\ calls[d].pc = "mkdir"
        /\ calls[d].awaiting = p
        /\ calls[d].i <= Len(calls[d].components)
        /\ IsPathPrefix(SubSeq(calls[d].components, 1, calls[d].i), components)

\* Promise p is the convert_promise of an unfinished conversion of the node
\* of `components` or of an ancestor of it.
ConvertingAncestor(p, components) ==
    \E v \in 1..Len(convs) :
        /\ convs[v].promise = p
        /\ convs[v].pc \notin {"done", "failed"}
        /\ IsPathPrefix(convs[v].components, components)

\* The calls chained on node n were all issued for one path, and each is
\* past the last component of it.
QueueOfOnePath(n) ==
    \A j, k \in 1..Len(nodes[n].queue) :
        LET c == nodes[n].queue[j]
            d == nodes[n].queue[k]
        IN  /\ calls[c].node = n
            /\ calls[c].i > Len(calls[c].components)
            /\ calls[c].components = calls[d].components

\* C22: an operation on a path waits only behind the operations chained on
\* the path's own terminal node, and at an await only for a directory on
\* its path that is being created or converted; so nothing chained on the
\* node of another path holds it up.
C22_WaitsOnlyOnOwnNodeOrBusyAncestor ==
    /\ \A n \in 1..Len(nodes) : QueueOfOnePath(n)
    /\ \A c \in 1..Len(calls) :
          AwaitsPending(c) =>
              \/ CreatingAncestor(calls[c].awaiting, calls[c].components)
              \/ ConvertingAncestor(calls[c].awaiting, calls[c].components)

\* An operation in flight on one path with a second one chained behind it
\* on the same node, while an operation on a sibling path, issued after
\* both, has already settled.
C22_Witness ==
    \E c, d, e \in 1..Len(calls) :
        /\ c < d /\ d < e
        /\ calls[c].pc \in {"readFile", "writeFile", "unlink"}
        /\ calls[d].pc = "queued"
        /\ nodes[calls[c].node].queue = <<c, d>>
        /\ calls[e].pc = "done"
        /\ calls[e].result # Rejected
        /\ calls[e].components # calls[c].components
        /\ Len(calls[e].components) = Len(calls[c].components)
        /\ SubSeq(calls[e].components, 1, 1) = SubSeq(calls[c].components, 1, 1)

(***************************************************************************)
(* C23: the anticipated set                                                *)
(***************************************************************************)

\* The event loop fires every timer it has.
EventLoopFairness == WF_vars(TimerFire)

\* The caller's calls with filesystem calls that fail, on an event loop
\* that keeps running.
SpecFailFair == SpecFail /\ EventLoopFairness

\* Call c is a db.write between the start of its db._writeFile and its
\* setTimeout.
WriteInProgress(c) ==
    /\ calls[c].kind = "write"
    /\ calls[c].pc \in {"writeFile", "stat", "meta", "meta_wait"}

\* The path of every db.write that is writing is in anticipated_events.
C23_AnticipatedWhileWriting ==
    \A c \in 1..Len(calls) :
        WriteInProgress(c) => canonical_of(calls[c].components) \in anticipated_events

\* Every call has been issued and has settled, and nothing but timers is
\* left to run.
AllSettled ==
    /\ budget = 0
    /\ mq = <<>>
    /\ \A c \in 1..Len(calls) : calls[c].pc = "done"
    /\ \A v \in 1..Len(convs) : convs[v].pc \in {"done", "failed"}

\* Once every call has settled, anticipated_events becomes empty.
C23_MarksCleared == AllSettled ~> (anticipated_events = {})

\* C23: a path is in the anticipated set from before its content write
\* begins until the grace period after the write, and once all writes have
\* settled, with or without an error, every path leaves the set.
C23_AnticipatedUntilCleared == [](C23_AnticipatedWhileWriting) /\ C23_MarksCleared

(***************************************************************************)
(* C24: update_meta merges                                                 *)
(***************************************************************************)

\* Every update of the metadata has completed.
MetaSettled == meta_storage.chain = <<>>

\* C24: after any set of update_meta calls on a path has completed, also
\* ones concurrent with each other or with the bookkeeping of db.write,
\* every field set by one of them and not overwritten by a later one is
\* still in the metadata of the path, with the value it was given last.
C24_UpdatesMerged ==
    MetaSettled =>
        \A f \in MetaFields :
            meta_storage.merged[f] # Undefined =>
                meta_storage.meta_cache[f] = meta_storage.merged[f]

(***************************************************************************)
(* C25: the watcher mirrors what other processes do                        *)
(***************************************************************************)

\* The components the names of an entry decode to.
DecodedNames(names) == [i \in 1..Len(names) |-> decode_component(names[i])]

\* The components of the canonical path of the entry: those of the
\* directory for an index file.
CanonicalComponents(names) == WithoutIndex(DecodedNames(names))

\* This step is chokidar delivering `event` for the entry.
Delivers(names, event) ==
    /\ watched' # watched
    /\ event_for(names) = event
    /\ watched' = reported(names, event)

\* The file db.write writes when it is called with nothing pending, <<>>
\* when the walk creates a node.
RECURSIVE write_path_now(_, _, _, _)
write_path_now(components, i, n, fullpath) ==
    IF i > Len(components)
    THEN IF nodes[n].directory_promise # 0 THEN Append(fullpath, IndexComponent) ELSE fullpath
    ELSE IF components[i] \notin DOMAIN nodes[n].component_to_node THEN <<>>
    ELSE write_path_now(components, i + 1, nodes[n].component_to_node[components[i]],
                        Append(fullpath,
                               nodes[nodes[n].component_to_node[components[i]]].file_path_component))

\* The tree has a node for the entry, and the node has the entry's name.
MirroredAs(names) ==
    /\ lookup(nodes, Root, DecodedNames(names)) # 0
    /\ nodes[lookup(nodes, Root, DecodedNames(names))].file_path_component = names[Len(names)]

\* After an add of a file: the node, and what db.read returns.
AfterAdd(names) ==
    /\ MirroredAs(names)
    /\ Quiescent => ReadNow(CanonicalComponents(names)) = on_disk[names]

\* After an addDir: the node is a directory, and db.write writes its index.
AfterAddDir(names) ==
    /\ MirroredAs(names)
    /\ nodes[lookup(nodes, Root, DecodedNames(names))].directory_promise # 0
    /\ Quiescent =>
           fs_name(write_path_now(DecodedNames(names), 1, Root, <<>>))
               = Append(names, IndexComponent)

\* The node the tree has for the directory of the entry, 0 when it has none.
ParentNode(names) == lookup(nodes, Root, DecodedNames(SubSeq(names, 1, Len(names) - 1)))

\* After an unlink or unlinkDir: no node, no entry of the case map, and
\* db.read returns null.
AfterUnlink(names) ==
    /\ lookup(nodes, Root, DecodedNames(names)) = 0
    /\ (~is_case_sensitive /\ ParentNode(names) # 0) =>
           toLowerCase(names[Len(names)]) \notin
               ifile_path_components(
                   nodes[ParentNode(names)].icomponent_to_ifile_path_components,
                   toLowerCase(decode_component(names[Len(names)])))
    /\ Quiescent => ReadNow(CanonicalComponents(names)) = Null

\* The disk as it is after a step of the watcher, which leaves it alone.
DiskUntouched == UNCHANGED <<fs, mtimes>>

\* C25: the watcher mirrors a change of the disk without touching the disk:
\* after an add of a file the tree has a node with the file's name and
\* db.read of its canonical path returns the file's content; after an addDir
\* the node is a directory and db.write of that path writes the directory's
\* index; after an unlink or unlinkDir the node and its entry of the case
\* map are gone and db.read returns null.
C25_WatcherMirrors ==
    [][\A names \in (DOMAIN on_disk \cup DOMAIN watched) \ {<<>>} :
           /\ Delivers(names, "add") => (DiskUntouched /\ AfterAdd(names)')
           /\ Delivers(names, "addDir") => (DiskUntouched /\ AfterAddDir(names)')
           /\ (Delivers(names, "unlink") \/ Delivers(names, "unlinkDir")) =>
                  (DiskUntouched /\ AfterUnlink(names)')]_vars

(***************************************************************************)
(* C26: siblings on a root that is not case sensitive                      *)
(***************************************************************************)

\* The names of the children of node n.
ChildNames(n) ==
    { nodes[nodes[n].component_to_node[k]].file_path_component :
          k \in DOMAIN nodes[n].component_to_node }

\* C26: on a root that is not case sensitive, after any writes, deletes and
\* watcher events, no two children of one node have names that are equal
\* after lower-casing.
C26_NoSiblingsEqualAfterLowerCasing ==
    ~is_case_sensitive =>
        \A n \in 1..Len(nodes) :
            /\ Cardinality(ChildNames(n)) = Cardinality(DOMAIN nodes[n].component_to_node)
            /\ \A name1, name2 \in ChildNames(n) :
                   name1 # name2 => toLowerCase(name1) # toLowerCase(name2)

(***************************************************************************)
(* C27: a file node has no children                                        *)
(***************************************************************************)

\* A node that is not a directory and not being converted to one.
IsFileNode(n) == nodes[n].directory_promise = 0

\* C27: in every reachable state, under any interleaving of writes, deletes
\* and watcher events, a node of the tree whose kind is File has no
\* children.
C27_FileNodeHasNoChildren ==
    \A n \in Subtree(Root) : IsFileNode(n) => nodes[n].component_to_node = <<>>

(***************************************************************************)
(* C28: the tree and the disk                                              *)
(***************************************************************************)

\* The nodes of the tree under node n with the path of each on disk, n at
\* `fullpath` included.
RECURSIVE NodePaths(_, _)
NodePaths(n, fullpath) ==
    { <<n, fullpath>> } \cup
    UNION { NodePaths(nodes[n].component_to_node[k],
                      Append(fullpath,
                             nodes[nodes[n].component_to_node[k]].file_path_component)) :
                k \in DOMAIN nodes[n].component_to_node }

\* chokidar has nothing left to deliver and no run of its handler is
\* under way.
AllDelivered ==
    /\ \A path \in DOMAIN on_disk \cup DOMAIN watched \cup {<<>>} :
           <<>> \in DOMAIN watched => event_for(path) = "none"
    /\ \A h \in 1..Len(handlers) : handlers[h].pc = "done"

\* C28: when no operation is pending and every watcher event has been
\* delivered, every node of the tree has its entry on disk: a file at its
\* path for a File node, a directory for a Directory node; also after
\* operations that failed.
C28_NodesHaveEntries ==
    (Quiescent /\ AllDelivered) =>
        \A np \in NodePaths(Root, <<>>) :
            IF IsFileNode(np[1])
            THEN IsFile(fs, fs_name(np[2]))
            ELSE IsDirectory(fs, fs_name(np[2]))

(***************************************************************************)
(* C29: directories are on disk before what is in them is touched          *)
(***************************************************************************)

\* Whether `path` is the path of an entry beneath the directory `dir`.
Beneath(path, dir) == Len(path) > Len(dir) /\ SubSeq(path, 1, Len(dir)) = dir

\* The directories whose creation on disk is under way: those a db.write
\* has a db._mkdir in flight for, and those of the conversions that have
\* not finished their db._mkdir.
BeingCreated ==
    { fs_name(calls[d].fullpath) : d \in { d \in 1..Len(calls) : calls[d].pc = "mkdir" } }
        \cup { fs_name(convs[v].dir_fullpath) :
                   v \in { v \in 1..Len(convs) :
                             convs[v].pc \in {"await_chain", "chain_settled", "readFile",
                                              "unlink", "mkdir"} } }

\* The entries the calls have a filesystem call in flight for, a db._mkdir
\* apart.
EntriesInFlight ==
    { fs_name(calls[c].fullpath) :
          c \in { c \in 1..Len(calls) : calls[c].pc \in CallIoPcs \ {"mkdir"} } }

\* C29: no filesystem call is in flight for an entry beneath a directory
\* whose creation on disk has not completed, whether the call belongs to
\* the operation that creates the directory or to one that found the new
\* node in the tree.
C29_NothingBeneathBeforeMkdir ==
    \A dir \in BeingCreated : \A path \in EntriesInFlight : ~Beneath(path, dir)

\* A db.write has its db._mkdir in flight, and a second operation that
\* found the new node in the tree waits for it.
C29_Witness ==
    \E d, c \in 1..Len(calls) :
        /\ calls[d].pc = "mkdir"
        /\ c # d
        /\ AwaitsPending(c)
        /\ calls[c].awaiting = calls[d].awaiting
        /\ calls[c].node = calls[d].node

(***************************************************************************)
(* C30: one node, one name and one entry for a component                   *)
(***************************************************************************)

\* How many of its components call c has taken a node for: the names of
\* calls[c].fullpath, the index file's apart.
Taken(c) ==
    IF Len(calls[c].fullpath) > Len(calls[c].components)
    THEN Len(calls[c].components)
    ELSE Len(calls[c].fullpath)

\* Whether the paths of calls c and d have their first k components in common.
SharesTo(c, d, k) ==
    /\ k <= Len(calls[c].components)
    /\ k <= Len(calls[d].components)
    /\ SubSeq(calls[c].components, 1, k) = SubSeq(calls[d].components, 1, k)

\* Two calls use the same name on disk for a component they share.
SingleEncodedName ==
    \A c, d \in 1..Len(calls) : \A k \in 1..Taken(c) :
        (k <= Taken(d) /\ SharesTo(c, d, k)) => calls[c].fullpath[k] = calls[d].fullpath[k]

\* Two calls that are at the same components are at the same node.
SameNode ==
    \A c, d \in 1..Len(calls) :
        (Taken(c) = Taken(d) /\ SharesTo(c, d, Taken(c))) => calls[c].node = calls[d].node

\* Every node that was created is the node the tree holds for its
\* component: none was created a second time in the place of another.
CreatedOnce == Cardinality(Subtree(Root)) = Len(nodes)

\* No two entries of a directory are names of one component.
OneEntryPerComponent ==
    \A p, q \in DOMAIN fs :
        (/\ dirname(p) = dirname(q)
         /\ decode_component(p[Len(p)]) = decode_component(q[Len(q)])) => p = q

\* Once nothing is pending, each write that resolved has its entry.
EntryResults ==
    (Quiescent /\ AllDelivered) =>
        \A c \in 1..Len(calls) : calls[c].result = "ok" => calls[c].fullpath \in DOMAIN fs

\* C30: of writes issued together (with the watcher's events among them)
\* whose paths share a component that has no node yet, one node is created
\* for the component under its parent, all of the writes use that node and
\* its one encoded name, and one entry results on disk.
C30_OneNodePerComponent ==
    /\ CreatedOnce
    /\ SameNode
    /\ SingleEncodedName
    /\ OneEntryPerComponent
    /\ EntryResults

(***************************************************************************)
(* C31: every call settles                                                 *)
(***************************************************************************)

\* The event loop runs the microtasks it has, and the filesystem returns
\* from every call, with or without an error.
Responds ==
    \/ RunMicrotask
    \/ \E c \in 1..Len(calls) : CompleteCallIO(c)
    \/ \E v \in 1..Len(convs) : CompleteConvertIO(v)

\* When Responds can take a step: a microtask is queued, or a filesystem
\* call of a call or of a conversion is in flight.
HasWork ==
    \/ mq # <<>>
    \/ \E c \in 1..Len(calls) : calls[c].pc \in CallIoPcs
    \/ \E v \in 1..Len(convs) : convs[v].pc \in ConvIoPcs

\* Weak fairness of Responds, WF_vars(Responds), with its enabling
\* condition written out.
FilesystemResponds == []<>(~HasWork) \/ []<><<Responds>>_vars

\* The caller's calls, with filesystem calls that fail, on an event loop
\* that keeps running and a filesystem that returns from every call.
SpecFailLive == SpecFail /\ FilesystemResponds

\* A conversion of node n waits for the queue of n to drain while a call
\* waits for the conversion.
C31_Witness ==
    \E v \in 1..Len(convs) : \E c \in 1..Len(calls) :
        /\ convs[v].pc = "await_chain"
        /\ nodes[convs[v].node].queue # <<>>
        /\ calls[c].pc = "convert_await"
        /\ calls[c].node = convs[v].node

\* C31: every call that was issued settles.
C31_EveryCallSettles ==
    \A c \in 1..MaxCallsFail :
        (c <= Len(calls)) ~> (c <= Len(calls) /\ calls[c].pc = "done")

(***************************************************************************)
(* C32: a path that cannot be decoded                                      *)
(***************************************************************************)

\* The step is the issue of a call whose path decode_path throws on.
IssuesUndecodable ==
    /\ Len(calls') = Len(calls) + 1
    /\ decode_path(calls'[Len(calls')].path) = URIError

\* C32: a db.read, db.write or db.delete called with a path that cannot be
\* decoded rejects, and leaves the tree, the disk, anticipated_events, the
\* metadata and the other calls as they were.
C32_UndecodablePathChangesNothing ==
    [][IssuesUndecodable =>
           /\ calls'[Len(calls')].pc = "done"
           /\ calls'[Len(calls')].result = Rejected
           /\ SubSeq(calls', 1, Len(calls)) = calls
           /\ UNCHANGED <<nodes, prom, convs, mq, timers>>
           /\ UNCHANGED <<fs, mtimes, spelled>>
           /\ UNCHANGED <<anticipated_events, meta_cache, meta_fibers>>]_vars

\* A call with a path that cannot be decoded has rejected, and a db.write
\* issued after it has resolved.
C32_Witness ==
    \E b, c \in 1..Len(calls) :
        /\ decode_path(calls[b].path) = URIError
        /\ calls[b].result = Rejected
        /\ b < c
        /\ calls[c].kind = "write"
        /\ calls[c].result = "ok"

(***************************************************************************)
(* C33: events the handler ignores                                         *)
(***************************************************************************)

\* chokidar_handler returns before it does anything: the event is of
\* base_dir itself, or filter_cb returns false for it.
Ignored(names, event) ==
    \/ names = <<>>
    \/ filter_cb # NoFilter /\ ~filter_call(filter_cb, names, event)

\* C33: an event of a path that is not inside base_dir, or that filter_cb
\* rejects, changes nothing: the tree with its case-insensitive index, the
\* metadata and anticipated_events stay as they were, no run of the handler
\* is left pending and the callback is not called.
C33_IgnoredEventChangesNothing ==
    [][\A names \in DOMAIN on_disk \cup DOMAIN watched \cup {<<>>} :
           (/\ event_for(names) # "none"
            /\ Delivers(names, event_for(names))
            /\ Ignored(names, event_for(names))) =>
               /\ UNCHANGED <<nodes, prom, meta_cache, meta_fibers, anticipated_events>>
               /\ UNCHANGED <<callbacks, handlers, chokidar_fibers, mq>>]_vars

\* chokidar has reported base_dir and, to a database whose filter_cb
\* rejects it, the file or directory a, of which the tree has no node.
C33_Witness ==
    /\ filter_cb = "not_a"
    /\ <<>> \in DOMAIN watched
    /\ <<CompA>> \in DOMAIN watched
    /\ CompA \notin DOMAIN nodes[Root].component_to_node

(***************************************************************************)
(* C34: index and what follows it                                          *)
(***************************************************************************)

\* C34: the canonical path of a raw path followed by '/index' and by
\* nothing or by the separator and anything is the canonical path of the
\* raw path.
C34_IndexSuffixIgnored ==
    output.called => output.with_index = output.plain

(***************************************************************************)
(* C35: every path given to the filesystem is inside base_dir              *)
(***************************************************************************)

\* A name that names an entry of the directory it is appended to: not
\* empty, not '.' or '..', and without a separator.
IsEntryName(name) ==
    /\ name \notin { <<>>, <<".">>, <<".", ".">> }
    /\ \A k \in 1..Len(name) : name[k] # "/"

\* The names are one name per component, for the first components or for
\* all of them, and after all of them possibly index.
NamesOf(names, components) ==
    /\ Len(names) <= Len(components) + 1
    /\ \A k \in 1..Len(names) :
           IF k <= Len(components)
           THEN IsEntryName(names[k]) /\ decode_component(names[k]) = components[k]
           ELSE names[k] = IndexComponent

\* The components of a call, as decode_path returns them.
IsCanonical(components) ==
    \A k \in 1..Len(components) :
        components[k] \notin { <<>>, <<".">>, <<".", ".">>, IndexComponent }

\* The components of the directory conversion v makes: those of a call
\* that waits for it, up to the directory.
ConvertsFor(v, c) ==
    /\ calls[c].pc = "convert_await"
    /\ calls[c].node = convs[v].node

\* C35: while a filesystem call of a db.read, db.write, db.delete or of a
\* conversion is in flight, its path is base_dir, one encoded name for each
\* of the first components of the call's canonical path and possibly index
\* after the last; no component is empty, '.', '..' or index and no name
\* holds a separator.
C35_PathsInsideBaseDir ==
    /\ \A c \in 1..Len(calls) :
           /\ IsCanonical(calls[c].components)
           /\ calls[c].pc \in CallIoPcs => NamesOf(calls[c].fullpath, calls[c].components)
    /\ \A v \in 1..Len(convs) :
           convs[v].pc \in ConvIoPcs =>
               /\ \A k \in 1..Len(convs[v].dir_fullpath) : IsEntryName(convs[v].dir_fullpath[k])
               /\ \A c \in 1..Len(calls) :
                      ConvertsFor(v, c) =>
                          NamesOf(Append(convs[v].dir_fullpath, IndexComponent),
                                  SubSeq(calls[c].components, 1, Len(convs[v].dir_fullpath)))

\* A db.write of a path that starts with '..' and has an escaped separator
\* has its db._writeFile in flight for a name in base_dir.
C35_Witness ==
    \E c \in 1..Len(calls) :
        /\ calls[c].path = <<"/", ".", ".", "%", "2", "F", "a">>
        /\ calls[c].pc = "writeFile"
        /\ Len(calls[c].fullpath) = 1

(***************************************************************************)
(* C36: the name encode_to_avoid_icase_collision returns                   *)
(***************************************************************************)

\* The numbers k for which the name with its last k eligible letters
\* escaped is free after lower-casing.
FreeAt(component, existing_icomponents) ==
    { k \in 0..Cardinality(Eligible(component)) :
          toLowerCase(EscapeLast(component, k)) \notin existing_icomponents }

\* C36: encode_to_avoid_icase_collision returns the name with its last k
\* eligible letters escaped, for the smallest k that makes the lower-cased
\* name free (the name itself when it is free); digits, other characters
\* and the escapes of the name are left as they are.  It throws when no k
\* does.
C36_EscapesFewestTrailingLetters ==
    output.called =>
        LET free == FreeAt(input.component, input.existing_icomponents)
        IN  IF free = {} THEN output.name = CollisionExhausted
            ELSE output.name =
                     EscapeLast(input.component,
                                CHOOSE k \in free : \A j \in free : k <= j)

\* A name with an escape and a digit after its letters, of which two
\* letters had to be escaped.
C36_Witness ==
    /\ output.called
    /\ input.component = <<"a", "B", "%", "3", "A">>
    /\ output.name = <<"%", "6", "1", "%", "4", "2", "%", "3", "A">>

(***************************************************************************)
(* C37: encode_to_avoid_icase_collision finds a name                        *)
(***************************************************************************)

\* C37: on a root that is not case sensitive no db.write of a sibling
\* fails: encode_to_avoid_icase_collision finds a free name for every
\* component and does not throw.
C37_ResolverNeverExhausted ==
    \A c \in 1..Len(calls) : calls[c].kind = "write" => calls[c].result # Rejected

(***************************************************************************)
(* C38: different canonical paths have different entries                    *)
(***************************************************************************)

\* The entry the filesystem finds for the value of the node of e, a pair
\* of NodePaths.
StoredAt(e) ==
    fs_name(IF nodes[e[1]].directory_promise # 0 THEN Append(e[2], IndexComponent) ELSE e[2])

\* C38: the values of two different nodes of the tree are stored in
\* entries the filesystem tells apart; on a root that is not case
\* sensitive no child of a directory is stored at the directory's index.
C38_DistinctPathsDistinctEntries ==
    \A e1, e2 \in NodePaths(Root, <<>>) : e1[1] # e2[1] => StoredAt(e1) # StoredAt(e2)

(***************************************************************************)
(* C39: a db.delete that resolves false                                     *)
(***************************************************************************)

\* Call c is a db.delete that has resolved false, was made of a path that
\* had a node, with nothing pending, and no call has been made since.
DeleteResolvedFalse(c) ==
    /\ calls[c].kind = "delete"
    /\ Done(c)
    /\ calls[c].result = "false"
    /\ calls[c].quiet
    /\ calls[c].existed
    /\ c = Len(calls)

\* C39: after a db.delete that resolved false the parent still holds the
\* node it held for the path when the call was made.
C39_FalseDeleteKeepsNode ==
    \A c \in 1..Len(calls) :
        DeleteResolvedFalse(c) => lookup(nodes, Root, calls[c].components) = calls[c].node

(***************************************************************************)
(* C40: chokidar_handler does not throw                                     *)
(***************************************************************************)

\* chokidar_handler called now with the event throws: in a loop
\* ('Corruption detected' or the URIError of decode_component) or in
\* get_canonical_path after it.
HandlerThrows(names, event) ==
    /\ names # <<>>
    /\ filter_cb = NoFilter \/ filter_call(filter_cb, names, event)
    /\ \/ event \in {"add", "addDir"} /\ handler_add(Cur, names, 1, Root, event).thrown
       \/ event \in {"unlink", "unlinkDir"} /\ handler_unlink(Cur, names, 1, Root).thrown
       \/ event \in {"add", "change", "unlink"}
              /\ get_canonical_path(file_path_of(names)) = URIError

\* C40: chokidar_handler throws for no event that chokidar delivers.
C40_HandlerNeverThrows ==
    [][\A names \in DOMAIN on_disk \cup DOMAIN watched \cup {<<>>} :
           (/\ event_for(names) # "none"
            /\ Delivers(names, event_for(names))) =>
               ~HandlerThrows(names, event_for(names))]_vars

=============================================================================
